---- MODULE Spec2Model ----
(***************************************************************************)
(* Rocket CLI proxy: request admission gateway.                            *)
(*                                                                         *)
(*   api/v1/generate  handler, getUserIdentifier, hashString,              *)
(*                    checkBudgetExceeded                                  *)
(*   lib/key-rotation selectKey, markKeyUnhealthy, generateWithRotation    *)
(*   lib/analytics    calculateCost, trackRequest                          *)
(*                                                                         *)
(* A request slot p runs one invocation at a time.  Every await of the     *)
(* code (a call into the shared store or into the upstream backend) is a   *)
(* step boundary; the synchronous code between two awaits is one action.   *)
(* All slots run in one process, so they share keyStates; the store        *)
(* (quota, ledgerCost, sessions) is shared by construction.                *)
(***************************************************************************)
EXTENDS Integers, Sequences, FiniteSets, TLC

VARIABLES
    now,         \* Date.now(), in clock ticks
    started,     \* number of requests / generate calls started so far
    env,         \* which GEMINI_KEY_* environment variables are set
    keyStates,   \* key-rotation.ts: the in-memory Map name -> GeminiKey
    quota,       \* store: fixed-window counters of the rate limiter
    ledgerCost,  \* store: rocket:analytics:<day>:cost
    sessions,    \* store: rocket:session:<token> -> expiresAt
    req,         \* per-slot locals of the running invocation
    admitted,    \* history: requests admitted per quota window
    anyFailure,  \* history: some upstream call has failed
    failOrder,   \* history: the keys whose last upstream call failed with a
                 \* retryable error, in the order of those failures
    alertMarker, \* store: rocket:alert:<day>:<message prefix> -> set at tick
    delivered,   \* history: webhook deliveries per alert and clock tick
    oauthStates, \* store: the nonces n with a rocket:oauth_state:<n> key
    userSessions, \* store: rocket:user_sessions:<id> -> set of tokens
    analytics    \* store: rocket:analytics:<day>:* counters and users

vars == <<now, started, env, keyStates, quota, ledgerCost, sessions, req,
          admitted, anyFailure, failOrder, alertMarker, delivered, oauthStates,
                   userSessions,
          analytics>>

(***************************************************************************)
(* Bounds                                                                  *)
(***************************************************************************)
NumSlots    == 2      \* concurrent invocations
MaxRequests == 2      \* requests started in one behaviour
MaxNow      == 1      \* last clock tick
TicksPerDay == 1      \* clock ticks in one UTC day
CapUnits    == 5      \* DAILY_BUDGET_CAP, in ledger units (1e-5 dollar)
Headroom    == 1      \* admissions left in a quota window that is in use
AlertTtl    == 1      \* clock ticks an alert marker lasts (ex: 3600)
SessionLife == 1      \* clock ticks from createSession to expiresAt
MaxDepth    == 2      \* nested getSession calls followed in one lookup

Slots == 1..NumSlots
Null  == -1           \* a Date | null that is null
None  == "none"

(***************************************************************************)
(* Strings.  A string that the code searches with includes() is a tuple    *)
(* of one-character strings, so that the search is computed.               *)
(***************************************************************************)
LowerOf ==
    [A |-> "a", F |-> "f", I |-> "i", K |-> "k", P |-> "p", Q |-> "q",
     R |-> "r", N |-> "n", G |-> "g", T |-> "t", U |-> "u", M |-> "m"]

ToLowerCase(s) ==
    [i \in 1..Len(s) |-> IF s[i] \in DOMAIN LowerOf THEN LowerOf[s[i]] ELSE s[i]]

Includes(s, t) ==
    \E i \in 1..(Len(s) - Len(t) + 1) : SubSeq(s, i, i + Len(t) - 1) = t

S_rate_limit   == <<"r","a","t","e"," ","l","i","m","i","t">>
S_quota        == <<"q","u","o","t","a">>
S_res_exh      == <<"r","e","s","o","u","r","c","e"," ","e","x","h","a","u","s","t","e","d">>
S_429          == <<"4","2","9">>
S_api_key      == <<"a","p","i"," ","k","e","y">>
S_unauthorized == <<"u","n","a","u","t","h","o","r","i","z","e","d">>
S_403          == <<"4","0","3">>
S_invalid      == <<"i","n","v","a","l","i","d">>
S_API_key      == <<"A","P","I"," ","k","e","y">>

\* Messages of the errors the upstream SDK call can throw.
ErrorText ==
    [e429     |-> <<"4","2","9"," ","T","o","o"," ","M","a","n","y">>,
     eQuota   |-> <<"Q","u","o","t","a"," ","e","x","c","e","e","d","e","d">>,
     eApiKey  |-> <<"A","P","I"," ","k","e","y"," ","n","o","t"," ","v","a","l","i","d">>,
     e403     |-> <<"4","0","3"," ","F","o","r","b","i","d","d","e","n">>,
     eOther   |-> <<"f","e","t","c","h"," ","f","a","i","l","e","d">>,
     eNoKeys  |-> <<"N","o"," ","G","e","m","i","n","i"," ","A","P","I"," ",
                    "k","e","y","s"," ","c","o","n","f","i","g","u","r","e","d">>]

UpstreamErrors == {"e429", "eApiKey", "eOther"}

\* The rejections the handler is run against: one more, which the retry
\* loop and the handler's catch block classify differently.
GatewayErrors == UpstreamErrors \cup {"e403"}

(***************************************************************************)
(* key-rotation.ts                                                         *)
(***************************************************************************)
KeyOrder == <<"primary", "fallback1", "fallback2">>
KeyNames == {KeyOrder[i] : i \in 1..Len(KeyOrder)}

NewKeyState == [isHealthy |-> TRUE, lastError |-> None, lastUsed |-> Null,
                requestCount |-> 0]

\* getOrCreateKeyState over every configured name: the Map after the call.
WithKeyStates(ks, e) ==
    [n \in (DOMAIN ks) \cup e |-> IF n \in DOMAIN ks THEN ks[n] ELSE NewKeyState]

\* getConfiguredKeys: the configured names, in the order they are pushed.
GetConfiguredKeys(e) == SelectSeq(KeyOrder, LAMBDA n : n \in e)

\* The comparator handed to Array.prototype.sort.
CompareLastUsed(a, b) ==
    IF a.lastUsed = Null THEN -1
    ELSE IF b.lastUsed = Null THEN 1
    ELSE a.lastUsed - b.lastUsed

\* The first element of the array left unsorted.
SortFirstMutant(ks, names) == {names[1]}

\* The names that sort(CompareLastUsed)[0] can yield for the array `names`.
\* The comparator answers -1 for two never-used keys in either order, so
\* their relative order is implementation-defined: any of them can come
\* first.  Otherwise the sort is stable and the first minimal element wins.
SortFirst(ks, names) ==
    LET idx    == 1..Len(names)
        unused == {i \in idx : ks[names[i]].lastUsed = Null}
        least  == {i \in idx : \A j \in idx :
                       CompareLastUsed(ks[names[i]], ks[names[j]]) <= 0}
    IN  IF Cardinality(unused) >= 2 THEN {names[i] : i \in unused}
        ELSE {names[CHOOSE i \in least : \A j \in least : i <= j]}

\* selectKey: the keys it can return (empty set: it returns null).
SelectReturnsMutant(ks, e) ==
    LET keys == GetConfiguredKeys(e)
    IN  IF Len(keys) = 0 THEN {} ELSE SortFirst(ks, keys)

SelectReturns(ks, e) ==
    LET keys    == GetConfiguredKeys(e)
        healthy == SelectSeq(keys, LAMBDA n : ks[n].isHealthy)
    IN  IF Len(keys) = 0 THEN {}
        ELSE IF Len(healthy) = 0 THEN SortFirst(ks, keys)
        ELSE SortFirst(ks, healthy)

\* selectKey: the Map after it returned k ("Reset health to try again").
SelectEffectMutant(ks, e, k) == ks

SelectEffect(ks, e, k) ==
    IF \A n \in e : ~ks[n].isHealthy
    THEN [ks EXCEPT ![k].isHealthy = TRUE]
    ELSE ks

MarkKeyUnhealthyMutant(ks, name, error) ==
    IF name \in DOMAIN ks
    THEN [ks EXCEPT ![name].lastError = error]
    ELSE ks

MarkKeyUnhealthy(ks, name, error) ==
    IF name \in DOMAIN ks
    THEN [ks EXCEPT ![name].isHealthy = FALSE, ![name].lastError = error]
    ELSE ks

\* generateWithRotation, "Update key state on success".
KeySuccess(ks, name, t) ==
    [ks EXCEPT ![name].lastUsed = t,
               ![name].requestCount = @ + 1,
               ![name].isHealthy = TRUE,
               ![name].lastError = None]

\* generateWithRotation, the catch block: how the error is classified.
RateLimitErrors ==
    {e \in DOMAIN ErrorText :
        LET m == ToLowerCase(ErrorText[e])
        IN  Includes(m, S_rate_limit) \/ Includes(m, S_quota)
            \/ Includes(m, S_res_exh) \/ Includes(m, S_429)}

InvalidKeyErrors ==
    {e \in DOMAIN ErrorText :
        LET m == ToLowerCase(ErrorText[e])
        IN  Includes(m, S_api_key) \/ Includes(m, S_unauthorized)
            \/ Includes(m, S_403) \/ Includes(m, S_invalid)}

IsRateLimitError(e) == e \in RateLimitErrors

IsInvalidKeyError(e) == e \in InvalidKeyErrors

maxRetries == 3

\* The loop condition of generateWithRotation: attempt < maxRetries.
AttemptsLeftMutant(attempt) == attempt <= maxRetries

AttemptsLeft(attempt) == attempt < maxRetries

(***************************************************************************)
(* api/v1/generate: identity                                               *)
(***************************************************************************)
CharCode ==
    [a |-> 97, b |-> 98, c |-> 99, e |-> 101, k |-> 107, n |-> 110,
     o |-> 111, u |-> 117, w |-> 119]

Digits36 ==
    <<"0","1","2","3","4","5","6","7","8","9","a","b","c","d","e","f","g","h",
      "i","j","k","l","m","n","o","p","q","r","s","t","u","v","w","x","y","z">>

\* hashString.  `(hash << 5) - hash + char` followed by `hash & hash` is
\* 31 * hash + char modulo 2^32, read as a signed 32-bit integer.  The
\* 32-bit value is kept as two 16-bit halves <<hi, lo>>.
RECURSIVE HashFrom(_, _, _)
HashFrom(str, i, hash) ==
    IF i > Len(str) THEN hash
    ELSE LET lo == 31 * hash[2] + CharCode[str[i]]
             hi == 31 * hash[1] + (lo \div 65536)
         IN  HashFrom(str, i + 1, <<hi % 65536, lo % 65536>>)

\* Math.abs of the signed reading of <<hi, lo>>, again as two halves
\* (the halves of 2^31 for the most negative value).
AbsHalves(hash) ==
    IF hash[1] < 32768 THEN hash
    ELSE IF hash[2] = 0 THEN <<65536 - hash[1], 0>>
    ELSE <<65535 - hash[1], 65536 - hash[2]>>

\* Number.prototype.toString(36) of hi * 65536 + lo, by long division.
RECURSIVE ToString36(_)
ToString36(h) ==
    LET rem1 == h[1] % 36
        q1   == h[1] \div 36
        cur  == rem1 * 65536 + h[2]
        q2   == cur \div 36
        d    == cur % 36
        q    == <<q1 + (q2 \div 65536), q2 % 65536>>
    IN  IF h[1] = 0 /\ h[2] < 36 THEN <<Digits36[h[2] + 1]>>
        ELSE Append(ToString36(q), Digits36[d + 1])

hashString(str) == ToString36(AbsHalves(HashFrom(str, 1, <<0, 0>>)))

S_unknown == <<"u","n","k","n","o","w","n">>

\* Request headers.  A header that is absent is <<>>; the Authorization
\* header is <<scheme, credentials>>; X-Forwarded-For is the list of its
\* comma-separated entries, trimmed.
TokenGood == <<"a","b">>      \* a session token that the store holds
TokenBad  == <<"c","a">>      \* a token that no session was minted for
IpA       == <<"a","a","e">>

Inputs ==
    <<[auth |-> <<>>,                  ghUser |-> <<>>,      fwd |-> <<IpA>>, realIp |-> <<>>],
      [auth |-> <<"Bearer", TokenGood>>, ghUser |-> <<>>,    fwd |-> <<IpA>>, realIp |-> <<>>],
      [auth |-> <<"Bearer", TokenBad>>,  ghUser |-> <<>>,    fwd |-> <<IpA>>, realIp |-> <<>>],
      [auth |-> <<>>,                  ghUser |-> <<"n","e","o">>, fwd |-> <<>>, realIp |-> <<>>],
      \* headers that name more than one identity
      [auth |-> <<"Bearer", TokenGood>>, ghUser |-> <<"n","e","o">>, fwd |-> <<IpA>>, realIp |-> <<>>],
      [auth |-> <<>>,                  ghUser |-> <<"n","e","o">>, fwd |-> <<IpA>>, realIp |-> <<>>],
      [auth |-> <<"Basic", TokenGood>>,  ghUser |-> <<>>,    fwd |-> <<IpA>>, realIp |-> <<>>],
      [auth |-> <<>>,                  ghUser |-> <<>>,      fwd |-> <<>>,    realIp |-> IpA]>>

\* The headers of the requests sent to the generate endpoint on its own.
CoreInputs == 1..4

getUserIdentifier(h) ==
    IF h.auth # <<>> /\ h.auth[1] = "Bearer"
    THEN [userId |-> <<"github", hashString(h.auth[2])>>, tier |-> "authenticated"]
    ELSE IF h.ghUser # <<>>
    THEN [userId |-> <<"github", h.ghUser>>, tier |-> "authenticated"]
    ELSE LET first == IF h.fwd # <<>> THEN h.fwd[1] ELSE <<>>
             ip    == IF first # <<>> THEN first
                      ELSE IF h.realIp # <<>> THEN h.realIp
                      ELSE S_unknown
         IN  [userId |-> <<"ip", hashString(ip)>>, tier |-> "anonymous"]

Identities == {getUserIdentifier(Inputs[i]) : i \in 1..Len(Inputs)}

(***************************************************************************)
(* api/v1/generate: rate limiter, budget, cost                             *)
(***************************************************************************)
AnonLimit == 5
AuthLimit == 25

TierLimit(tier) == IF tier = "authenticated" THEN AuthLimit ELSE AnonLimit

\* Ratelimit.fixedWindow(tokens, "1 d"): the window a request falls in.
Day(t) == t \div TicksPerDay

Days == 0..Day(MaxNow)

QuotaKeys == {<<id.tier, id.userId, d>> : id \in Identities, d \in Days}

\* Ratelimit.fixedWindow(tokens, "1 d").limit(): one atomic increment of
\* the window's counter, compared after.
LimitSuccessMutant(usedAfter, tokens) == usedAfter <= tokens + 1

LimitSuccess(usedAfter, tokens) == usedAfter <= tokens

LimitRemaining(usedAfter, tokens) ==
    IF tokens - usedAfter > 0 THEN tokens - usedAfter ELSE 0

MaxPromptLength == 32000

\* Math.ceil((prompt.length + text.length) / 4)
EstimatedTokens(promptLen, textLen) == (promptLen + textLen + 3) \div 4

\* Math.round(calculateCost(tokens) * 100000), with
\* calculateCost(tokens) = tokens / 1000 * 0.0001875: tokens * 3 / 160,
\* rounded half up.
CostUnits(tokens) == (tokens * 6 + 160) \div 320

\* checkBudgetExceeded: (costRaw ?? 0) / 100000 >= budgetCap
BudgetExceededMutant(costRaw) == costRaw > CapUnits

BudgetExceeded(costRaw) == costRaw >= CapUnits

\* The catch block of the handler: the response for an error thrown by
\* generateWithRotation.  The message is searched as thrown (no lowering).
CatchResponses ==
    [e \in DOMAIN ErrorText |->
        LET m == ErrorText[e]
        IN  IF Includes(m, S_rate_limit) \/ Includes(m, S_429)
            THEN [status |-> 503, code |-> "UPSTREAM_RATE_LIMIT"]
            ELSE IF Includes(m, S_API_key)
            THEN [status |-> 503, code |-> "CONFIG_ERROR"]
            ELSE [status |-> 500, code |-> "GENERATION_FAILED"]]

\* The catch block searching for the lowered "api key".
CatchResponseMutant(e) ==
    LET m == ErrorText[e]
    IN  IF Includes(m, S_rate_limit) \/ Includes(m, S_429)
        THEN [status |-> 503, code |-> "UPSTREAM_RATE_LIMIT"]
        ELSE IF Includes(m, S_api_key)
        THEN [status |-> 503, code |-> "CONFIG_ERROR"]
        ELSE [status |-> 500, code |-> "GENERATION_FAILED"]

CatchResponse(e) == CatchResponses[e]

(***************************************************************************)
(* Slots                                                                   *)
(***************************************************************************)
IdleReq ==
    [pc |-> "idle", via |-> None,
     \* handler locals
     promptLen |-> 0, userId |-> <<>>, tier |-> None,
     limit |-> 0, remaining |-> 0,
     \* generateWithRotation locals
     attempt |-> 0, keyInfo |-> None, lastError |-> None,
     \* what the caller gets: an HTTP response, or the result / the error
     \* of generateWithRotation
     status |-> 0, code |-> None, repRemaining |-> 0,
     keyUsed |-> None, thrown |-> None,
     \* trackRequest locals
     usageTotal |-> 0,
     trackDay |-> 0, trackTokens |-> 0, trackUnits |-> 0, alertKey |-> None,
     cap |-> CapUnits,        \* DAILY_BUDGET_CAP as checkBudgetAndAlert reads it
     \* auth: validateState, the callback handler, getSession
     op |-> None, nonce |-> None, redirect |-> None, token |-> <<>>,
     depth |-> 0, reads |-> 0, result |-> None,
     session |-> FALSE,       \* deleteSession: getSession gave it a session
     answer |-> None,         \* poll: what the provider answered
     \* the request as it came in
     method |-> None, body |-> None, hdr |-> 0,
     reset |-> 0,             \* the reset instant reported
     seen |-> <<>>,           \* history: the counters a status read found
     at |-> 0,                \* history: the time of the store call
     metrics |-> None,        \* the UsageMetrics object a reader returned
     got |-> <<>>,            \* the answers to the reader's reads so far
     \* GET health: the HealthResponse being built
     health |-> None, redis |-> None, gemini |-> None,
     includeMetrics |-> FALSE, healthyKeys |-> 0, totalKeys |-> 0,
     \* history of this invocation
     bearer |-> <<>>,         \* the bearer token it presented
     used |-> 0,              \* the counter value limit() got back
     storeFailed |-> FALSE,   \* an admission check found the store down
     fresh |-> FALSE]         \* the call began with three healthy keys and
                              \* no other call has overlapped it

InGenerate(r) == r.pc = "upstream"

\* The sequence s with the key k taken out.
Without(s, k) == SelectSeq(s, LAMBDA n : n # k)

\* The slot record once selectKey() returned k and the upstream call began.
Selected(r, ks, k, others) ==
    [r EXCEPT !.pc = "upstream", !.keyInfo = k,
              !.fresh = /\ ~others
                        /\ IF r.attempt = 0
                           THEN env = KeyNames /\ \A n \in env : ks[n].isHealthy
                           ELSE @]

\* generateWithRotation throwing an error of its own in place of e.
GenThrowsMutant(r, e) ==
    IF r.via = "http"
    THEN [r EXCEPT !.pc = "done", !.status = CatchResponse("eNoKeys").status,
                   !.code = CatchResponse("eNoKeys").code, !.thrown = "eNoKeys"]
    ELSE [r EXCEPT !.pc = "done", !.thrown = "eNoKeys"]

\* generateWithRotation throws e: to the handler's catch block, or to the
\* direct caller.
GenThrows(r, e) ==
    IF r.via = "http"
    THEN [r EXCEPT !.pc = "done", !.status = CatchResponse(e).status,
                   !.code = CatchResponse(e).code, !.thrown = e]
    ELSE [r EXCEPT !.pc = "done", !.thrown = e]

\* generateWithRotation returns the result of key k: the handler estimates
\* the cost, starts trackRequest (not awaited) and responds 200.
GenReturns(r, k, ans, t) ==
    IF r.via = "http"
    THEN [r EXCEPT !.pc = "track", !.keyUsed = k,
                   !.usageTotal = ans.totalTokens,
                   !.trackDay = Day(t),
                   !.trackTokens = EstimatedTokens(r.promptLen, ans.textLen),
                   !.trackUnits = CostUnits(EstimatedTokens(r.promptLen, ans.textLen)),
                   !.status = 200, !.code = "OK",
                   !.repRemaining = r.remaining - 1]
    ELSE [r EXCEPT !.pc = "done", !.keyUsed = k]

\* The top of the retry loop for slot p, whose record is rq[p], with the
\* Map ks: leave the loop when the attempts are used up, else selectKey()
\* and start the upstream call.  All of it runs without an await.
LoopTop(p, rq, ks) ==
    LET r   == rq[p]
        ks1 == WithKeyStates(ks, env)
    IN  IF ~AttemptsLeft(r.attempt)
        THEN /\ req' = [rq EXCEPT ![p] = GenThrows(r, r.lastError)]
             /\ keyStates' = ks
        ELSE IF SelectReturns(ks1, env) = {}
        THEN /\ req' = [rq EXCEPT ![p] = GenThrows(r, "eNoKeys")]
             /\ keyStates' = ks1
        ELSE \E k \in SelectReturns(ks1, env) :
             LET others == \E q \in Slots \ {p} : InGenerate(rq[q])
             IN  /\ req' = [q \in Slots |->
                              IF q = p THEN Selected(r, ks1, k, others)
                              ELSE IF InGenerate(rq[q])
                              THEN [rq[q] EXCEPT !.fresh = FALSE]
                              ELSE rq[q]]
                 /\ keyStates' = SelectEffect(ks1, env, k)

(***************************************************************************)
(* generateWithRotation                                                    *)
(***************************************************************************)
\* A caller other than the HTTP handler invokes generateWithRotation.
CallGenerate(p) ==
    /\ req[p].pc = "idle"
    /\ started < MaxRequests
    /\ started' = started + 1
    /\ LoopTop(p, [req EXCEPT ![p] = [IdleReq EXCEPT !.via = "direct"]], keyStates)
    /\ UNCHANGED <<now, env, quota, ledgerCost, sessions, admitted, anyFailure,
                   failOrder, alertMarker, delivered, oauthStates,
                   userSessions, analytics>>

\* generateWithKey resolves.
UpstreamOk(p, ans) ==
    LET r == req[p]
        k == r.keyInfo
    IN  /\ r.pc = "upstream"
        /\ keyStates' = KeySuccess(keyStates, k, now)
        /\ req' = [req EXCEPT ![p] =
                     GenReturns(r, k, ans, now)]
        /\ failOrder' = Without(failOrder, k)
        /\ UNCHANGED <<now, started, env, quota, ledgerCost, sessions,
                       admitted, anyFailure, alertMarker, delivered,
                       oauthStates,
                   userSessions, analytics>>

\* generateWithKey rejects with a rate-limit / quota error: mark the key,
\* continue with the next attempt.
UpstreamRateLimited(p, e) ==
    LET r == req[p]
        k == r.keyInfo
    IN  /\ r.pc = "upstream"
        /\ IsRateLimitError(e)
        /\ anyFailure' = TRUE
        /\ failOrder' = Append(Without(failOrder, k), k)
        /\ LoopTop(p, [req EXCEPT ![p] =
                         [r EXCEPT !.lastError = e, !.attempt = @ + 1]],
                   MarkKeyUnhealthy(keyStates, k, "Rate limited"))
        /\ UNCHANGED <<now, started, env, quota, ledgerCost, sessions, admitted,
                       alertMarker, delivered, oauthStates,
                   userSessions, analytics>>

\* generateWithKey rejects with an invalid-key error: same.
UpstreamInvalidKey(p, e) ==
    LET r == req[p]
        k == r.keyInfo
    IN  /\ r.pc = "upstream"
        /\ ~IsRateLimitError(e)
        /\ IsInvalidKeyError(e)
        /\ anyFailure' = TRUE
        /\ failOrder' = Append(Without(failOrder, k), k)
        /\ LoopTop(p, [req EXCEPT ![p] =
                         [r EXCEPT !.lastError = e, !.attempt = @ + 1]],
                   MarkKeyUnhealthy(keyStates, k, "Invalid API key"))
        /\ UNCHANGED <<now, started, env, quota, ledgerCost, sessions, admitted,
                       alertMarker, delivered, oauthStates,
                   userSessions, analytics>>

\* generateWithKey rejects with any other error: rethrown at once.
UpstreamOtherError(p, e) ==
    LET r == req[p]
        k == r.keyInfo
    IN  /\ r.pc = "upstream"
        /\ ~IsRateLimitError(e)
        /\ ~IsInvalidKeyError(e)
        /\ anyFailure' = TRUE
        /\ req' = [req EXCEPT ![p] =
                     GenThrows([r EXCEPT !.lastError = e], e)]
        /\ UNCHANGED <<now, started, env, keyStates, quota, ledgerCost,
                       sessions, admitted, failOrder, alertMarker, delivered,
                       oauthStates,
                   userSessions, analytics>>

\* The invocation is over; the slot takes the next one.
Release(p) ==
    /\ req[p].pc = "done"
    /\ req' = [req EXCEPT ![p] = IdleReq]
    /\ UNCHANGED <<now, started, env, keyStates, quota, ledgerCost, sessions,
                   admitted, anyFailure, failOrder, alertMarker, delivered,
                   oauthStates,
                   userSessions, analytics>>

Tick ==
    /\ now < MaxNow
    /\ now' = now + 1
    /\ UNCHANGED <<started, env, keyStates, quota, ledgerCost, sessions, req,
                   admitted, anyFailure, failOrder, alertMarker, delivered,
                   oauthStates,
                   userSessions, analytics>>

TextLengths == {8, 200}

\* What generateWithKey resolves with: a text of textLen characters and
\* usage.totalTokens, which is 0 when the upstream reports no usage.
Answers == {[textLen |-> 8, totalTokens |-> 0], [textLen |-> 200, totalTokens |-> 60]}

(***************************************************************************)
(* POST /api/v1/generate                                                   *)
(***************************************************************************)
\* What a client can send: a method, a body and one of the header sets.
\* body "json" is a JSON object whose prompt is a string of promptLen
\* characters; "noprompt" is a JSON object without a prompt; "null" is
\* the JSON text null, which parses to a value without members; "badjson"
\* does not parse.
Requests ==
    {[method |-> "POST", body |-> "json", promptLen |-> n, input |-> i] :
        n \in {8}, i \in CoreInputs}
    \cup
    {[method |-> "GET",  body |-> "json",     promptLen |-> 8, input |-> 1],
     [method |-> "POST", body |-> "badjson",  promptLen |-> 0, input |-> 1],
     [method |-> "POST", body |-> "null",     promptLen |-> 0, input |-> 1],
     [method |-> "POST", body |-> "noprompt", promptLen |-> 0, input |-> 1],
     [method |-> "POST", body |-> "json",     promptLen |-> 0, input |-> 1],
     [method |-> "POST", body |-> "json",     promptLen |-> MaxPromptLength + 1,
      input |-> 1]}

Respond(r, status, code) ==
    [r EXCEPT !.pc = "done", !.status = status, !.code = code]

\* The handler up to its first await on the store: method, body and
\* prompt checks, then getUserIdentifier.
Receive(p, rq) ==
    LET r  == [IdleReq EXCEPT !.via = "http", !.op = "generate",
                              !.method = rq.method, !.body = rq.body,
                              !.promptLen = rq.promptLen, !.hdr = rq.input]
        h  == Inputs[rq.input]
        id == getUserIdentifier(h)
    IN  /\ req[p].pc = "idle"
        /\ started < MaxRequests
        /\ started' = started + 1
        /\ req' = [req EXCEPT ![p] =
              IF rq.method # "POST"
              THEN Respond(r, 405, "METHOD_NOT_ALLOWED")
              ELSE IF rq.body = "badjson"
              THEN Respond(r, 400, "INVALID_JSON")
              ELSE IF rq.body = "null"
              THEN Respond(r, 500, "UNHANDLED")
              ELSE IF rq.body = "noprompt" \/ rq.promptLen = 0
              THEN Respond(r, 400, "INVALID_PROMPT")
              ELSE IF rq.promptLen > MaxPromptLength
              THEN Respond(r, 400, "PROMPT_TOO_LONG")
              ELSE [r EXCEPT !.pc = "ratelimit",
                             !.promptLen = rq.promptLen,
                             !.userId = id.userId,
                             !.tier = id.tier,
                             !.bearer = IF h.auth # <<>> /\ h.auth[1] = "Bearer"
                                        THEN h.auth[2] ELSE <<>>]]
        /\ UNCHANGED <<now, env, keyStates, quota, ledgerCost, sessions,
                       admitted, anyFailure, failOrder, alertMarker, delivered,
                       oauthStates,
                   userSessions, analytics>>

\* ratelimit.limit(): the counter of the window after the call, which
\* counts the request in.
IncrementedMutant(q, key) == q

Incremented(q, key) == [q EXCEPT ![key] = @ + 1]

\* await ratelimit.limit(userId), the store answering.
RateLimit(p) ==
    LET r         == req[p]
        key       == <<r.tier, r.userId, Day(now)>>
        tokens    == TierLimit(r.tier)
        usedAfter == quota[key] + 1
    IN  /\ r.pc = "ratelimit"
        /\ quota' = Incremented(quota, key)
        /\ IF LimitSuccess(usedAfter, tokens)
           THEN /\ admitted' = [admitted EXCEPT ![key] = @ + 1]
                /\ req' = [req EXCEPT ![p] =
                      [r EXCEPT !.pc = "budget", !.limit = tokens,
                                !.remaining = LimitRemaining(usedAfter, tokens),
                                !.used = usedAfter]]
           ELSE /\ UNCHANGED admitted
                /\ req' = [req EXCEPT ![p] =
                      [Respond(r, 429, "RATE_LIMIT_EXCEEDED") EXCEPT
                          !.limit = tokens,
                          !.remaining = LimitRemaining(usedAfter, tokens),
                          !.used = usedAfter,
                          !.repRemaining = 0]]
        /\ UNCHANGED <<now, started, env, keyStates, ledgerCost, sessions,
                       anyFailure, failOrder, alertMarker, delivered,
                       oauthStates,
                   userSessions, analytics>>

\* await ratelimit.limit(userId), the store unreachable: the rejection is
\* not caught, the invocation fails and the platform answers 500.
RateLimitThrows(p) ==
    LET r == req[p]
    IN  /\ r.pc = "ratelimit"
        /\ req' = [req EXCEPT ![p] =
              [Respond(r, 500, "UNHANDLED") EXCEPT !.storeFailed = TRUE]]
        /\ UNCHANGED <<now, started, env, keyStates, quota, ledgerCost,
                       sessions, admitted, anyFailure, failOrder, alertMarker, delivered,
                       oauthStates,
                   userSessions, analytics>>

\* await checkBudgetExceeded(), the store answering; when the budget is
\* not exceeded the handler goes on into generateWithRotation.
BudgetCheck(p) ==
    LET r == req[p]
    IN  /\ r.pc = "budget"
        /\ IF BudgetExceeded(ledgerCost[Day(now)])
           THEN /\ req' = [req EXCEPT ![p] = Respond(r, 503, "BUDGET_EXCEEDED")]
                /\ UNCHANGED keyStates
           ELSE LoopTop(p, req, keyStates)
        /\ UNCHANGED <<now, started, env, quota, ledgerCost, sessions,
                       admitted, anyFailure, failOrder, alertMarker, delivered,
                       oauthStates,
                   userSessions, analytics>>

\* await checkBudgetExceeded(), the store unreachable: the catch block
\* returns false.
BudgetCheckThrows(p) ==
    LET r == req[p]
    IN  /\ r.pc = "budget"
        /\ LoopTop(p, [req EXCEPT ![p] = [r EXCEPT !.storeFailed = TRUE]],
                   keyStates)
        /\ UNCHANGED <<now, started, env, quota, ledgerCost, sessions,
                       admitted, anyFailure, failOrder, alertMarker, delivered,
                       oauthStates,
                   userSessions, analytics>>

(***************************************************************************)
(* GET /api/v1/limits; lib/rate-limit: checkRateLimit, getRateLimitStatus  *)
(***************************************************************************)
\* limits.ts: getUserIdentifier, the endpoint's own copy.
getUserIdentifierLimitsMutant(h) ==
    IF h.ghUser # <<>>
    THEN [userId |-> <<"github", h.ghUser>>, tier |-> "authenticated"]
    ELSE IF h.auth # <<>> /\ h.auth[1] = "Bearer"
    THEN [userId |-> <<"github", hashString(h.auth[2])>>, tier |-> "authenticated"]
    ELSE LET first == IF h.fwd # <<>> THEN h.fwd[1] ELSE <<>>
             ip    == IF first # <<>> THEN first
                      ELSE IF h.realIp # <<>> THEN h.realIp
                      ELSE S_unknown
         IN  [userId |-> <<"ip", hashString(ip)>>, tier |-> "anonymous"]

getUserIdentifierLimits(h) ==
    IF h.auth # <<>> /\ h.auth[1] = "Bearer"
    THEN [userId |-> <<"github", hashString(h.auth[2])>>, tier |-> "authenticated"]
    ELSE IF h.ghUser # <<>>
    THEN [userId |-> <<"github", h.ghUser>>, tier |-> "authenticated"]
    ELSE LET first == IF h.fwd # <<>> THEN h.fwd[1] ELSE <<>>
             ip    == IF first # <<>> THEN first
                      ELSE IF h.realIp # <<>> THEN h.realIp
                      ELSE S_unknown
         IN  [userId |-> <<"ip", hashString(ip)>>, tier |-> "anonymous"]

\* The end of the window of time t: (bucket + 1) * windowDuration, and
\* setUTCHours(24, 0, 0, 0) of the current date.
NextMidnight(t) == (Day(t) + 1) * TicksPerDay

\* The counter a store read finds under a key: a key that was never
\* written reads null, which counts as 0.
CountAt(key) == IF key \in DOMAIN quota THEN quota[key] ELSE 0

\* What a status read does to the counters.
StatusEffectMutant(q, key) ==
    IF key \in DOMAIN q THEN [q EXCEPT ![key] = @ + 1] ELSE q

StatusEffect(q, key) == q

\* The counters of an identity as a status read found them.
SeenBy(tier, userId) == [d \in Days |-> quota[<<tier, userId, d>>]]

\* GET limits up to ratelimit.getRemaining(userId).
LimitsReceive(p, method, i) ==
    LET r  == [IdleReq EXCEPT !.via = "http", !.op = "limits",
                              !.method = method, !.hdr = i]
        id == getUserIdentifierLimits(Inputs[i])
    IN  /\ req[p].pc = "idle"
        /\ started < MaxRequests
        /\ started' = started + 1
        /\ req' = [req EXCEPT ![p] =
              IF method = "OPTIONS" THEN Respond(r, 204, None)
              ELSE IF method # "GET"
              THEN Respond(r, 405, "METHOD_NOT_ALLOWED")
              ELSE [r EXCEPT !.pc = "getremaining",
                             !.userId = id.userId, !.tier = id.tier]]
        /\ UNCHANGED <<now, env, keyStates, quota, ledgerCost, sessions,
                       admitted, anyFailure, failOrder, alertMarker, delivered,
                       oauthStates, userSessions, analytics>>

\* Ratelimit.fixedWindow(tokens, "1 d").getRemaining(), the store
\* answering: the counter of the current window is read.
LimitsRead(p) ==
    LET r      == req[p]
        key    == <<r.tier, r.userId, Day(now)>>
        tokens == TierLimit(r.tier)
    IN  /\ r.pc = "getremaining"
        /\ quota' = StatusEffect(quota, key)
        /\ req' = [req EXCEPT ![p] =
              [Respond(r, 200, "OK") EXCEPT
                  !.limit = tokens,
                  !.remaining = LimitRemaining(CountAt(key), tokens),
                  !.reset = NextMidnight(now),
                  !.seen = SeenBy(r.tier, r.userId),
                  !.at = now]]
        /\ UNCHANGED <<now, started, env, keyStates, ledgerCost, sessions,
                       admitted, anyFailure, failOrder, alertMarker, delivered,
                       oauthStates, userSessions, analytics>>

\* getRemaining, the store unreachable: the handler does not catch the
\* rejection and the platform answers 500.
LimitsReadThrows(p) ==
    LET r == req[p]
    IN  /\ r.pc = "getremaining"
        /\ req' = [req EXCEPT ![p] =
              [Respond(r, 500, "UNHANDLED") EXCEPT !.storeFailed = TRUE]]
        /\ UNCHANGED <<now, started, env, keyStates, quota, ledgerCost,
                       sessions, admitted, anyFailure, failOrder, alertMarker,
                       delivered, oauthStates, userSessions, analytics>>

\* A call of a function of lib/rate-limit with an identifier and a tier.
CallRateLimitLib(p, name, id) ==
    /\ req[p].pc = "idle"
    /\ started < MaxRequests
    /\ started' = started + 1
    /\ req' = [req EXCEPT ![p] =
                 [IdleReq EXCEPT !.via = "direct", !.op = name, !.pc = name,
                                 !.userId = id.userId, !.tier = id.tier]]
    /\ UNCHANGED <<now, env, keyStates, quota, ledgerCost, sessions, admitted,
                   anyFailure, failOrder, alertMarker, delivered, oauthStates,
                   userSessions, analytics>>

CallGetRateLimitStatus(p, id) == CallRateLimitLib(p, "getRateLimitStatus", id)

CallCheckRateLimit(p, id) == CallRateLimitLib(p, "checkRateLimit", id)

\* getRateLimitStatus, the store answering: redisClient.get of the key
\* made of the prefix and the identifier.
StatusRead(p) ==
    LET r      == req[p]
        key    == <<r.tier, r.userId>>
        tokens == TierLimit(r.tier)
    IN  /\ r.pc = "getRateLimitStatus"
        /\ quota' = StatusEffect(quota, key)
        /\ req' = [req EXCEPT ![p] =
              [r EXCEPT !.pc = "done",
                        !.limit = tokens,
                        !.remaining = LimitRemaining(CountAt(key), tokens),
                        !.reset = NextMidnight(now),
                        !.seen = SeenBy(r.tier, r.userId),
                        !.at = now]]
        /\ UNCHANGED <<now, started, env, keyStates, ledgerCost, sessions,
                       admitted, anyFailure, failOrder, alertMarker, delivered,
                       oauthStates, userSessions, analytics>>

\* getRateLimitStatus, the store unreachable: the catch block returns
\* the full limit.
StatusReadThrows(p) ==
    LET r      == req[p]
        tokens == TierLimit(r.tier)
    IN  /\ r.pc = "getRateLimitStatus"
        /\ req' = [req EXCEPT ![p] =
              [r EXCEPT !.pc = "done",
                        !.limit = tokens,
                        !.remaining = tokens,
                        !.reset = NextMidnight(now),
                        !.storeFailed = TRUE]]
        /\ UNCHANGED <<now, started, env, keyStates, quota, ledgerCost,
                       sessions, admitted, anyFailure, failOrder, alertMarker,
                       delivered, oauthStates, userSessions, analytics>>

\* Ratelimit.slidingWindow(tokens, "1 d"): the requests of the previous
\* window that still count at time t, floor((1 - elapsed part of the
\* current window) * count).
PreviousWeighted(count, t) ==
    ((TicksPerDay - (t % TicksPerDay)) * count) \div TicksPerDay

\* checkRateLimit: limiter.limit(identifier) of the sliding-window
\* limiter, the store answering.  The request is refused without being
\* counted when the weighted previous window and the current one have
\* reached the limit; otherwise the current window is incremented.
CheckRateLimit(p) ==
    LET r        == req[p]
        key      == <<r.tier, r.userId, Day(now)>>
        prevKey  == <<r.tier, r.userId, Day(now) - 1>>
        tokens   == TierLimit(r.tier)
        previous == PreviousWeighted(CountAt(prevKey), now)
        refused  == previous + CountAt(key) >= tokens
        newValue == quota[key] + 1
    IN  /\ r.pc = "checkRateLimit"
        /\ quota' = IF refused THEN quota ELSE [quota EXCEPT ![key] = newValue]
        /\ admitted' = IF refused THEN admitted
                       ELSE [admitted EXCEPT ![key] = @ + 1]
        /\ req' = [req EXCEPT ![p] =
              [r EXCEPT !.pc = "done",
                        !.result = IF refused THEN "refused" ELSE "success",
                        !.limit = tokens,
                        !.remaining = IF refused THEN 0
                                      ELSE tokens - (newValue + previous),
                        !.used = CountAt(key),
                        !.reset = NextMidnight(now),
                        !.at = now]]
        /\ UNCHANGED <<now, started, env, keyStates, ledgerCost, sessions,
                       anyFailure, failOrder, alertMarker, delivered,
                       oauthStates, userSessions, analytics>>

\* checkRateLimit, the store unreachable: the rejection goes to the
\* caller.
CheckRateLimitThrows(p) ==
    LET r == req[p]
    IN  /\ r.pc = "checkRateLimit"
        /\ req' = [req EXCEPT ![p] =
              [r EXCEPT !.pc = "done", !.thrown = "eStore", !.storeFailed = TRUE]]
        /\ UNCHANGED <<now, started, env, keyStates, quota, ledgerCost,
                       sessions, admitted, anyFailure, failOrder, alertMarker,
                       delivered, oauthStates, userSessions, analytics>>

(***************************************************************************)
(* lib/analytics: the counters of a day and their readers                  *)
(***************************************************************************)
\* The counters trackRequest keeps per day and the readers read; a
\* counter whose key is missing is Null.  (The per-key counter
\* `key:<keyUsed>` has no reader and is left out.)
Counters == {"requests", "tokens", "tier:anonymous", "tier:authenticated"}

\* A day without keys.
NoKeys == [counters |-> [c \in Counters |-> Null], users |-> <<>>]

NoTraffic == [d \in Days |-> NoKeys]

\* INCR / INCRBY: a missing key counts from 0.
IncrBy(v, by) == IF v = Null THEN by ELSE v + by

\* ZINCRBY key 1 member
ZIncr(users, member) ==
    [m \in DOMAIN users \cup {member} |->
        IF m \in DOMAIN users
        THEN (IF m = member THEN users[m] + 1 ELSE users[m])
        ELSE 1]

\* trackRequest: what the pipeline makes of a day's keys.
Recorded(day, log) ==
    [counters |->
        [c \in Counters |->
            IF c = "requests" THEN IncrBy(day.counters[c], 1)
            ELSE IF c = "tokens" THEN IncrBy(day.counters[c], log.tokens)
            ELSE IF c = (IF log.tier = "anonymous" THEN "tier:anonymous"
                         ELSE "tier:authenticated")
            THEN IncrBy(day.counters[c], 1)
            ELSE day.counters[c]],
     users |-> ZIncr(day.users, log.userId)]

\* The requests behind a ledger that is n units into the day: n requests
\* of one anonymous caller, one unit each.
AnonId == getUserIdentifier(Inputs[1]).userId

RECURSIVE RecordedTimes(_, _)
RecordedTimes(day, n) ==
    IF n = 0 THEN day
    ELSE Recorded(RecordedTimes(day, n - 1),
                  [tier |-> "anonymous", userId |-> AnonId,
                   tokens |-> EstimatedTokens(8, 200)])

\* `v ?? 0`
OrZeroMutant(v) == v

OrZero(v) == IF v = Null THEN 0 ELSE v

\* The order of the members of a sorted set that have equal scores: by
\* their bytes.  A user id is <<"github" or "ip", characters>>.
CharRank(ch) == CHOOSE i \in 1..Len(Digits36) : Digits36[i] = ch

RECURSIVE SeqLess(_, _)
SeqLess(a, b) ==
    IF b = <<>> THEN FALSE
    ELSE IF a = <<>> THEN TRUE
    ELSE IF CharRank(Head(a)) # CharRank(Head(b))
    THEN CharRank(Head(a)) < CharRank(Head(b))
    ELSE SeqLess(Tail(a), Tail(b))

MemberLess(a, b) ==
    IF a[1] # b[1] THEN a[1] = "github"
    ELSE SeqLess(a[2], b[2])

\* zrange(key, 0, 9, { rev: true, withScores: true }), made into the
\* topUsers list: highest score first, at most ten.
RECURSIVE TopUsers(_, _)
TopUsers(users, n) ==
    IF n = 0 \/ DOMAIN users = {} THEN <<>>
    ELSE LET top == CHOOSE m \in DOMAIN users :
                       \A o \in DOMAIN users \ {m} :
                           \/ users[o] < users[m]
                           \/ users[o] = users[m] /\ MemberLess(o, m)
         IN  <<[id |-> top, requests |-> users[top]]>>
             \o TopUsers([m \in DOMAIN users \ {top} |-> users[m]], n - 1)

\* The keys of a day as a reader finds them: a date without keys reads
\* null everywhere.
KeysOf(d) == IF d \in Days THEN analytics[d] ELSE NoKeys

CostOf(d) == IF d \in Days THEN ledgerCost[d] ELSE 0

\* The reads a reader issues inside Promise.all: one command each.
ReadKeys(name) ==
    Counters \cup {"cost"}
        \cup (IF name = "getTodayMetrics" THEN {"users"} ELSE {})

\* What the store answers to the read of one key of day d.
StoreValue(d, key) ==
    IF key = "cost" THEN CostOf(d)
    ELSE IF key = "users" THEN KeysOf(d).users
    ELSE KeysOf(d).counters[key]

\* The UsageMetrics object of getTodayMetrics and of getMetricsForDate,
\* from the answers `got` of its reads; estimatedCost is kept in the
\* stored unit.
UsageMetrics(got) ==
    [totalRequests |-> OrZero(got["requests"]),
     totalTokens   |-> OrZero(got["tokens"]),
     estimatedCost |-> OrZero(got["cost"]),
     anonymous     |-> OrZero(got["tier:anonymous"]),
     authenticated |-> OrZero(got["tier:authenticated"]),
     topUsers      |-> IF "users" \in DOMAIN got
                       THEN TopUsers(got["users"], 10) ELSE <<>>]

\* The object of the readers' catch blocks.
ZeroMetrics ==
    [totalRequests |-> 0, totalTokens |-> 0, estimatedCost |-> 0,
     anonymous |-> 0, authenticated |-> 0, topUsers |-> <<>>]

\* getTodayMetrics() or getMetricsForDate(date) is called.
CallMetrics(p, name, d) ==
    /\ req[p].pc = "idle"
    /\ started < MaxRequests
    /\ started' = started + 1
    /\ req' = [req EXCEPT ![p] =
                 [IdleReq EXCEPT !.via = "direct", !.op = name,
                                 !.pc = "readmetrics", !.trackDay = d]]
    /\ UNCHANGED <<now, env, keyStates, quota, ledgerCost, sessions, admitted,
                   anyFailure, failOrder, alertMarker, delivered, oauthStates,
                   userSessions, analytics>>

CallGetTodayMetrics(p) == CallMetrics(p, "getTodayMetrics", Day(now))

CallGetMetricsForDate(p, d) == CallMetrics(p, "getMetricsForDate", d)

\* One of the reads of the reader resolves; with the last of them
\* Promise.all resolves and the reader returns.
MetricsGet(p, key) ==
    LET r   == req[p]
        got == [k \in DOMAIN r.got \cup {key} |->
                   IF k = key THEN StoreValue(r.trackDay, key) ELSE r.got[k]]
    IN  /\ r.pc = "readmetrics"
        /\ key \in ReadKeys(r.op) \ DOMAIN r.got
        /\ req' = [req EXCEPT ![p] =
              IF DOMAIN got = ReadKeys(r.op)
              THEN [r EXCEPT !.pc = "done", !.got = got,
                             !.metrics = UsageMetrics(got)]
              ELSE [r EXCEPT !.got = got]]
        /\ UNCHANGED <<now, started, env, keyStates, quota, ledgerCost,
                       sessions, admitted, anyFailure, failOrder, alertMarker,
                       delivered, oauthStates, userSessions, analytics>>

\* A read of the reader rejects: the catch block returns zeros.
MetricsReadThrows(p) ==
    LET r == req[p]
    IN  /\ r.pc = "readmetrics"
        /\ req' = [req EXCEPT ![p] =
              [r EXCEPT !.pc = "done", !.metrics = ZeroMetrics,
                        !.storeFailed = TRUE]]
        /\ UNCHANGED <<now, started, env, keyStates, quota, ledgerCost,
                       sessions, admitted, anyFailure, failOrder, alertMarker,
                       delivered, oauthStates, userSessions, analytics>>

\* analytics.ts: the two alerts of checkBudgetAndAlert.  The marker key
\* of an alert is made of the day and of the first bytes of its message,
\* which are the same for every message of one alert.
AlertLevels == {"critical", "warning"}

AlertKeys == {<<l, d>> : l \in AlertLevels, d \in Days}

(***************************************************************************)
(* Number arithmetic.  A positive Number (IEEE 754 binary64) is            *)
(* [m |-> its 53 significand bits, most significant first,                 *)
(*  e |-> the exponent of the last of them].                               *)
(***************************************************************************)
\* Round to nearest, ties to even: the Number for the bits `bits` (no
\* leading zero) followed by a tail that is nonzero iff `sticky`; e counts
\* from the last bit of `bits`.
RoundToNumber(bits, sticky) ==
    LET n == Len(bits)
        Inc(s) ==
            LET zeros == {i \in 1..Len(s) : s[i] = 0}
            IN  IF zeros = {} THEN <<1>> \o [i \in 1..Len(s) |-> 0]
                ELSE LET k == CHOOSE i \in zeros : \A j \in zeros : j <= i
                     IN  [i \in 1..Len(s) |->
                            IF i < k THEN s[i] ELSE IF i = k THEN 1 ELSE 0]
    IN  IF n <= 53
        THEN [m |-> bits \o [i \in 1..(53 - n) |-> 0], e |-> n - 53]
        ELSE LET head == SubSeq(bits, 1, 53)
                 rest == sticky \/ \E i \in 55..n : bits[i] = 1
                 up   == bits[54] = 1 /\ (rest \/ head[53] = 1)
                 r    == IF up THEN Inc(head) ELSE head
             IN  IF Len(r) > 53 THEN [m |-> SubSeq(r, 1, 53), e |-> n - 53 + 1]
                 ELSE [m |-> r, e |-> n - 53]

\* The bits `s` without their leading zeros.
Strip(s) ==
    LET ones == {i \in 1..Len(s) : s[i] = 1}
    IN  IF ones = {} THEN <<>>
        ELSE SubSeq(s, CHOOSE i \in ones : \A j \in ones : i <= j, Len(s))

\* The `w` low bits of the natural number v, most significant first.
LowBits(v, w) == [i \in 1..w |-> (v \div (2 ^ (w - i))) % 2]

\* The Number nearest to n / d (n, d positive integers below 2^17): the
\* value of the literal or of the string parsed.  The quotient of
\* n * 2^72 by d is taken 12 bits at a time.
NumberOf(n, d) ==
    LET rem[k \in 0..6] == IF k = 0 THEN n % d ELSE (rem[k - 1] * 4096) % d
        quot == LowBits(n \div d, 17)
                \o [j \in 1..72 |->
                      LET k == ((j - 1) \div 12) + 1
                      IN  (((rem[k - 1] * 4096) \div d)
                              \div (2 ^ (11 - ((j - 1) % 12)))) % 2]
        num == RoundToNumber(Strip(quot), rem[6] # 0)
    IN  [m |-> num.m, e |-> num.e - 72]

\* x * y: the significands are multiplied in limbs of 13 bits and the
\* product is rounded.
Times(x, y) ==
    LET Limb(s, k) ==
            LET hi == 53 - (13 * (k - 1))
                lo == IF hi - 12 < 1 THEN 1 ELSE hi - 12
                val[i \in (lo - 1)..hi] ==
                    IF i = lo - 1 THEN 0 ELSE (2 * val[i - 1]) + s[i]
            IN  val[hi]
        a == [k \in 1..5 |-> Limb(x.m, k)]
        b == [k \in 1..5 |-> Limb(y.m, k)]
        Conv(k) ==
            LET sum[i \in 0..5] ==
                    IF i = 0 THEN 0
                    ELSE sum[i - 1]
                         + (IF k + 1 - i \in 1..5 THEN a[i] * b[k + 1 - i] ELSE 0)
            IN  sum[5]
        carried[k \in 0..9] ==
            IF k = 0 THEN 0 ELSE Conv(k) + (carried[k - 1] \div 8192)
        prod == [k \in 1..10 |->
                    IF k = 10 THEN carried[9] \div 8192 ELSE carried[k] % 8192]
        bits == [j \in 1..130 |->
                    LowBits(prod[10 - ((j - 1) \div 13)], 13)[((j - 1) % 13) + 1]]
        num == RoundToNumber(Strip(bits), FALSE)
    IN  [m |-> num.m, e |-> num.e + x.e + y.e]

\* x >= y
AtLeast(x, y) ==
    \/ x.e > y.e
    \/ /\ x.e = y.e
       /\ LET diff == {i \in 1..53 : x.m[i] # y.m[i]}
          IN  diff = {} \/ x.m[CHOOSE i \in diff : \A j \in diff : i <= j] = 1

\* The values DAILY_BUDGET_CAP is given in the runs, in stored units
\* (DAILY_BUDGET_CAP is the decimal string of the units / 100000).
Caps == {CapUnits, 7 * CapUnits}

\* parseFloat(process.env.DAILY_BUDGET_CAP)
BudgetCapNumber == [c \in Caps |-> NumberOf(c, 100000)]

\* budgetCap * 0.8
WarnAtNumber == [c \in Caps |-> Times(BudgetCapNumber[c], NumberOf(8, 10))]

\* checkBudgetAndAlert with DAILY_BUDGET_CAP of `cap` units: the alert for
\* the estimatedCost of a recorded cost, (costRaw ?? 0) / 100000, compared
\* with budgetCap and with budgetCap * 0.8.  A cost of 0 is below both.
AlertFor(cap, costRaw) ==
    IF costRaw = 0 THEN None
    ELSE LET estimatedCost == NumberOf(costRaw, 100000)
         IN  IF AtLeast(estimatedCost, BudgetCapNumber[cap]) THEN "critical"
             ELSE IF AtLeast(estimatedCost, WarnAtNumber[cap]) THEN "warning"
             ELSE None

\* AlertFor, tabulated for the costs a ledger holds in the runs.
AlertTable ==
    [cap \in Caps |-> [c \in 0..(8 * CapUnits) |-> AlertFor(cap, c)]]

Alert(cap, costRaw) ==
    IF costRaw \in 0..(8 * CapUnits) THEN AlertTable[cap][costRaw]
    ELSE AlertFor(cap, costRaw)

\* redisClient.get(alertKey) at time t: the marker is set and its expiry
\* (ex: 3600) has not passed.
MarkerLive(key, t) ==
    /\ alertMarker[key] # Null
    /\ t < alertMarker[key] + AlertTtl

\* trackRequest ends on a failure: its catch block, or the handler's
\* .catch(console.error), logs the error.
TrackFailedMutant(r) ==
    [r EXCEPT !.pc = "done",
              !.status = IF r.via = "http" THEN 500 ELSE @,
              !.code = IF r.via = "http" THEN "GENERATION_FAILED" ELSE @]

TrackFailed(r) == [r EXCEPT !.pc = "done"]

\* A caller other than the HTTP handler invokes trackRequest.
CallTrack(p, units) ==
    /\ req[p].pc = "idle"
    /\ started < MaxRequests
    /\ started' = started + 1
    /\ req' = [req EXCEPT ![p] =
                 [IdleReq EXCEPT !.via = "direct", !.pc = "track",
                                 !.tier = "anonymous", !.userId = AnonId,
                                 !.trackTokens =
                                     IF units = 0 THEN EstimatedTokens(8, 8)
                                     ELSE EstimatedTokens(8, 200),
                                 !.trackDay = Day(now), !.trackUnits = units]]
    /\ UNCHANGED <<now, env, keyStates, quota, ledgerCost, sessions, admitted,
                   anyFailure, failOrder, alertMarker, delivered, oauthStates,
                   userSessions, analytics>>

\* trackRequest: pipeline.exec(), the store answering.
TrackExec(p) ==
    LET r == req[p]
    IN  /\ r.pc = "track"
        /\ ledgerCost' = [ledgerCost EXCEPT ![r.trackDay] = @ + r.trackUnits]
        /\ analytics' = [analytics EXCEPT ![r.trackDay] =
                            Recorded(@, [tier |-> r.tier, userId |-> r.userId,
                                         tokens |-> r.trackTokens])]
        /\ req' = [req EXCEPT ![p].pc = "metrics"]
        /\ UNCHANGED <<now, started, env, keyStates, quota, sessions,
                       admitted, anyFailure, failOrder, alertMarker, delivered,
                       oauthStates,
                   userSessions>>

\* trackRequest: getRedis() throws or pipeline.exec() rejects.
TrackFails(p) ==
    LET r == req[p]
    IN  /\ r.pc = "track"
        /\ req' = [req EXCEPT ![p] = TrackFailed(r)]
        /\ UNCHANGED <<now, started, env, keyStates, quota, ledgerCost,
                       sessions, admitted, anyFailure, failOrder, alertMarker,
                       delivered, oauthStates,
                   userSessions, analytics>>

\* checkBudgetAndAlert: getTodayMetrics(), the store answering; with an
\* alert due, sendSlackAlert computes the marker key and reads it.
CheckBudget(p) ==
    LET r     == req[p]
        level == Alert(r.cap, ledgerCost[Day(now)])
    IN  /\ r.pc = "metrics"
        /\ req' = [req EXCEPT ![p] =
              IF level = None THEN [r EXCEPT !.pc = "done"]
              ELSE [r EXCEPT !.pc = "alertget", !.alertKey = <<level, Day(now)>>]]
        /\ UNCHANGED <<now, started, env, keyStates, quota, ledgerCost,
                       sessions, admitted, anyFailure, failOrder, alertMarker,
                       delivered, oauthStates,
                   userSessions, analytics>>

\* checkBudgetAndAlert: getTodayMetrics() fails and returns zeros, for
\* which no alert is due.
CheckBudgetBlind(p) ==
    LET r == req[p]
    IN  /\ r.pc = "metrics"
        /\ Alert(r.cap, 0) = None
        /\ req' = [req EXCEPT ![p] = [r EXCEPT !.pc = "done"]]
        /\ UNCHANGED <<now, started, env, keyStates, quota, ledgerCost,
                       sessions, admitted, anyFailure, failOrder, alertMarker,
                       delivered, oauthStates,
                   userSessions, analytics>>

\* sendSlackAlert: redisClient.get(alertKey), the store answering.
AlertGet(p) ==
    LET r == req[p]
    IN  /\ r.pc = "alertget"
        /\ req' = [req EXCEPT ![p] =
              IF MarkerLive(r.alertKey, now) THEN [r EXCEPT !.pc = "done"]
              ELSE [r EXCEPT !.pc = "alertfetch"]]
        /\ UNCHANGED <<now, started, env, keyStates, quota, ledgerCost,
                       sessions, admitted, anyFailure, failOrder, alertMarker,
                       delivered, oauthStates,
                   userSessions, analytics>>

\* sendSlackAlert: redisClient.get(alertKey) rejects; trackRequest's catch
\* block logs it.
AlertGetThrows(p) ==
    LET r == req[p]
    IN  /\ r.pc = "alertget"
        /\ req' = [req EXCEPT ![p] = TrackFailed(r)]
        /\ UNCHANGED <<now, started, env, keyStates, quota, ledgerCost,
                       sessions, admitted, anyFailure, failOrder, alertMarker,
                       delivered, oauthStates,
                   userSessions, analytics>>

\* sendSlackAlert: fetch(webhookUrl) resolves, the alert is delivered.
AlertFetch(p) ==
    LET r == req[p]
    IN  /\ r.pc = "alertfetch"
        /\ delivered' = [delivered EXCEPT ![<<r.alertKey[1], now>>] = @ + 1]
        /\ req' = [req EXCEPT ![p] = [r EXCEPT !.pc = "alertset"]]
        /\ UNCHANGED <<now, started, env, keyStates, quota, ledgerCost,
                       sessions, admitted, anyFailure, failOrder, alertMarker,
                       oauthStates,
                   userSessions, analytics>>

\* sendSlackAlert: fetch(webhookUrl) rejects; nothing is delivered and no
\* marker is written.
AlertFetchFails(p) ==
    LET r == req[p]
    IN  /\ r.pc = "alertfetch"
        /\ req' = [req EXCEPT ![p] = TrackFailed(r)]
        /\ UNCHANGED <<now, started, env, keyStates, quota, ledgerCost,
                       sessions, admitted, anyFailure, failOrder, alertMarker,
                       delivered, oauthStates,
                   userSessions, analytics>>

\* sendSlackAlert: redisClient.set(alertKey, '1', { ex: 3600 }).
AlertSet(p) ==
    LET r == req[p]
    IN  /\ r.pc = "alertset"
        /\ alertMarker' = [alertMarker EXCEPT ![r.alertKey] = now]
        /\ req' = [req EXCEPT ![p] = [r EXCEPT !.pc = "done"]]
        /\ UNCHANGED <<now, started, env, keyStates, quota, ledgerCost,
                       sessions, admitted, anyFailure, failOrder, delivered,
                       oauthStates,
                   userSessions, analytics>>

\* sendSlackAlert: redisClient.set rejects; the error is logged.
AlertSetFails(p) ==
    LET r == req[p]
    IN  /\ r.pc = "alertset"
        /\ req' = [req EXCEPT ![p] = TrackFailed(r)]
        /\ UNCHANGED <<now, started, env, keyStates, quota, ledgerCost,
                       sessions, admitted, anyFailure, failOrder, alertMarker,
                       delivered, oauthStates,
                   userSessions, analytics>>

(***************************************************************************)
(* lib/auth: OAuth state, sessions; GET /api/auth/callback                 *)
(***************************************************************************)
\* The nonce an earlier GET /api/auth/github stored, and one never stored.
NonceStored  == "s1"
NonceUnknown == "s0"

\* The redirect stored with a nonce: the default of GET /api/auth/github.
StoredRedirect == "/api/auth/callback"

\* The GitHub account behind every access token here: user.id, printed.
GitHubUserId == <<"4","2">>

S_github == <<"g","i","t","h","u","b",":">>
S_user_sessions == <<"rocket:user_sessions:">>

\* createSession: userId: `github:${user.id}`.
SessionUserId(id) == S_github \o id

\* String.prototype.replace(pat, ""): the first occurrence of pat is
\* removed, a string without one is returned as it is.
RemoveFirst(str, pat) ==
    LET at == {i \in 1..(Len(str) - Len(pat) + 1) :
                  SubSeq(str, i, i + Len(pat) - 1) = pat}
    IN  IF at = {} THEN str
        ELSE LET i == CHOOSE j \in at : \A k \in at : j <= k
             IN  SubSeq(str, 1, i - 1) \o SubSeq(str, i + Len(pat), Len(str))

\* createSession: the key of the reverse lookup it adds the token to.
SaddKey(id) == S_user_sessions \o id

\* deleteSession: the key of the reverse lookup it removes the token from.
SremKeyMutant(userId) == S_user_sessions \o userId

SremKey(userId) == S_user_sessions \o RemoveFirst(userId, S_github)

IndexKeys == {SaddKey(GitHubUserId), SremKey(SessionUserId(GitHubUserId))}

\* The reverse lookup as the createSession that stored TokenGood left it.
InitIndex == [k \in IndexKeys |-> IF k = SaddKey(GitHubUserId) THEN {TokenGood} ELSE {}]

\* The session tokens createSession mints, in the order it mints them.
MintOrder == <<<<"m","a">>, <<"m","b">>, <<"m","c">>, <<"m","d">>>>

Unminted == SelectSeq(MintOrder, LAMBDA t : t \notin DOMAIN sessions)

\* What GitHub sends to the callback: the query parameters, absent ones
\* being None.
Callbacks ==
    {[method |-> "GET", error |-> None, code |-> "c", state |-> n] :
        n \in {NonceStored, NonceUnknown}}
    \cup
    {[method |-> "GET",  error |-> "access_denied", code |-> None, state |-> NonceStored],
     [method |-> "GET",  error |-> None, code |-> None, state |-> NonceStored],
     [method |-> "GET",  error |-> None, code |-> "c",  state |-> None],
     [method |-> "POST", error |-> None, code |-> "c",  state |-> NonceStored]}

\* A function awaited by the slot throws: the callback handler's catch
\* block answers the error page, that of the poll handler 500; a direct
\* caller gets the rejection.
AuthThrows(r) ==
    IF r.op = "poll"
    THEN Respond(r, 500, "POLL_FAILED")
    ELSE IF r.via = "http"
    THEN Respond(r, 400, "server_error")
    ELSE [r EXCEPT !.pc = "done", !.thrown = "eStore"]

\* validateState finds no redirect under the nonce.
StateMissingMutant(r) ==
    IF r.via = "http"
    THEN [r EXCEPT !.pc = "exchange"]
    ELSE [r EXCEPT !.pc = "done", !.result = None]

StateMissing(r) ==
    IF r.via = "http"
    THEN Respond(r, 400, "invalid_state")
    ELSE [r EXCEPT !.pc = "done", !.result = None]

\* A caller other than the callback handler invokes validateState(n).
CallValidateState(p, n) ==
    /\ req[p].pc = "idle"
    /\ started < MaxRequests
    /\ started' = started + 1
    /\ req' = [req EXCEPT ![p] =
                 [IdleReq EXCEPT !.via = "direct", !.pc = "stateget", !.nonce = n]]
    /\ UNCHANGED <<now, env, keyStates, quota, ledgerCost, sessions, admitted,
                   anyFailure, failOrder, alertMarker, delivered, oauthStates,
                   userSessions, analytics>>

\* The callback handler up to its first await: method, error parameter,
\* code and state.
CallbackReceive(p, q) ==
    LET r == [IdleReq EXCEPT !.via = "http"]
    IN  /\ req[p].pc = "idle"
        /\ started < MaxRequests
        /\ started' = started + 1
        /\ req' = [req EXCEPT ![p] =
              IF q.method # "GET"
              THEN Respond(r, 405, "METHOD_NOT_ALLOWED")
              ELSE IF q.error # None
              THEN Respond(r, 400, q.error)
              ELSE IF q.code = None \/ q.state = None
              THEN Respond(r, 400, "invalid_request")
              ELSE [r EXCEPT !.pc = "stateget", !.nonce = q.state]]
        /\ UNCHANGED <<now, env, keyStates, quota, ledgerCost, sessions,
                       admitted, anyFailure, failOrder, alertMarker, delivered,
                       oauthStates,
                   userSessions, analytics>>

\* validateState: redisClient.get, the store answering.
StateGet(p) ==
    LET r == req[p]
    IN  /\ r.pc = "stateget"
        /\ req' = [req EXCEPT ![p] =
              IF r.nonce \in oauthStates
              THEN [r EXCEPT !.pc = "statedel", !.redirect = StoredRedirect]
              ELSE StateMissing(r)]
        /\ UNCHANGED <<now, started, env, keyStates, quota, ledgerCost,
                       sessions, admitted, anyFailure, failOrder, alertMarker,
                       delivered, oauthStates,
                   userSessions, analytics>>

\* validateState: redisClient.del, the store answering; validateState
\* returns the redirect it read.
StateDel(p) ==
    LET r == req[p]
    IN  /\ r.pc = "statedel"
        /\ oauthStates' = oauthStates \ {r.nonce}
        /\ req' = [req EXCEPT ![p] =
              [r EXCEPT !.pc = IF r.via = "http" THEN "exchange" ELSE "done",
                        !.result = r.redirect]]
        /\ UNCHANGED <<now, started, env, keyStates, quota, ledgerCost,
                       sessions, admitted, anyFailure, failOrder, alertMarker,
                       delivered,
                   userSessions, analytics>>

\* validateState: the store call it awaits rejects.
StateThrows(p) ==
    LET r == req[p]
    IN  /\ r.pc \in {"stateget", "statedel"}
        /\ req' = [req EXCEPT ![p] = AuthThrows(r)]
        /\ UNCHANGED <<now, started, env, keyStates, quota, ledgerCost,
                       sessions, admitted, anyFailure, failOrder, alertMarker,
                       delivered, oauthStates,
                   userSessions, analytics>>

\* The store evicts the nonce: its ten minutes are over.
ExpireState(n) ==
    /\ n \in oauthStates
    /\ now > 0
    /\ oauthStates' = oauthStates \ {n}
    /\ UNCHANGED <<now, started, env, keyStates, quota, ledgerCost, sessions,
                   req, admitted, anyFailure, failOrder, alertMarker, delivered,
                   userSessions, analytics>>

\* exchangeCodeForToken and, in createSession, getGitHubUser resolve.
Exchange(p) ==
    LET r == req[p]
    IN  /\ r.pc = "exchange"
        /\ req' = [req EXCEPT ![p] = [r EXCEPT !.pc = "mint"]]
        /\ UNCHANGED <<now, started, env, keyStates, quota, ledgerCost,
                       sessions, admitted, anyFailure, failOrder, alertMarker,
                       delivered, oauthStates,
                   userSessions, analytics>>

\* createSession: redisClient.set stores the session under a new token.
CreateSession(p) ==
    LET r == req[p]
    IN  /\ r.pc = "mint"
        /\ Unminted # <<>>
        /\ sessions' = [t \in DOMAIN sessions \cup {Head(Unminted)} |->
                           IF t = Head(Unminted) THEN now + SessionLife
                           ELSE sessions[t]]
        /\ req' = [req EXCEPT ![p] =
                     [r EXCEPT !.pc = "sadd", !.token = Head(Unminted)]]
        /\ UNCHANGED <<now, started, env, keyStates, quota, ledgerCost,
                       admitted, anyFailure, failOrder, alertMarker, delivered,
                       oauthStates,
                   userSessions, analytics>>

\* createSession: redisClient.sadd resolves, createSession returns and
\* the handler answers the success page.
SessionIndexed(p) ==
    LET r == req[p]
    IN  /\ r.pc = "sadd"
        /\ userSessions' = [userSessions EXCEPT
                               ![SaddKey(GitHubUserId)] = @ \cup {r.token}]
        /\ req' = [req EXCEPT ![p] =
                     Respond(r, 200, IF r.op = "poll" THEN "success" ELSE "OK")]
        /\ UNCHANGED <<now, started, env, keyStates, quota, ledgerCost,
                       sessions, admitted, anyFailure, failOrder, alertMarker,
                       delivered, oauthStates, analytics>>

\* exchangeCodeForToken, getGitHubUser or a store write of createSession
\* rejects.
ExchangeThrows(p) ==
    LET r == req[p]
    IN  /\ r.pc \in {"exchange", "mint", "sadd"}
        /\ req' = [req EXCEPT ![p] = AuthThrows(r)]
        /\ UNCHANGED <<now, started, env, keyStates, quota, ledgerCost,
                       sessions, admitted, anyFailure, failOrder, alertMarker,
                       delivered, oauthStates,
                   userSessions, analytics>>

(***************************************************************************)
(* POST /api/auth/device/poll                                              *)
(***************************************************************************)
\* What the provider's token endpoint answers for a device code: the
\* error and access_token members of the body, absent ones being None.
ProviderAnswers ==
    {[error |-> e, access_token |-> None] :
        e \in {"authorization_pending", "slow_down", "expired_token",
               "access_denied"}}
    \cup {[error |-> None, access_token |-> "gho"],
          [error |-> None, access_token |-> None]}

\* pollDeviceToken: the status it makes of the provider's answer.
PollStatusMutant(data) ==
    IF data.error = "authorization_pending" THEN "pending"
    ELSE IF data.error = "slow_down" THEN "pending"
    ELSE IF data.error # None THEN "error"
    ELSE IF data.access_token # None THEN "success"
    ELSE "error"

PollStatus(data) ==
    IF data.error = "authorization_pending" THEN "pending"
    ELSE IF data.error = "slow_down" THEN "pending"
    ELSE IF data.error = "expired_token" THEN "expired"
    ELSE IF data.error # None THEN "error"
    ELSE IF data.access_token # None THEN "success"
    ELSE "error"

\* Requests to the poll endpoint: the method, whether the body parses as
\* JSON, and its device_code member.
Polls ==
    {[method |-> "POST", json |-> TRUE,  device_code |-> "d"],
     [method |-> "POST", json |-> TRUE,  device_code |-> None],
     [method |-> "POST", json |-> FALSE, device_code |-> None],
     [method |-> "GET",  json |-> TRUE,  device_code |-> "d"]}

\* handlePoll up to the fetch of pollDeviceToken.
PollReceive(p, q) ==
    LET r == [IdleReq EXCEPT !.via = "http", !.op = "poll"]
    IN  /\ req[p].pc = "idle"
        /\ started < MaxRequests
        /\ started' = started + 1
        /\ req' = [req EXCEPT ![p] =
              IF q.method # "POST"
              THEN Respond(r, 405, "METHOD_NOT_ALLOWED")
              ELSE IF ~q.json
              THEN AuthThrows(r)
              ELSE IF q.device_code = None
              THEN Respond(r, 400, "MISSING_DEVICE_CODE")
              ELSE [r EXCEPT !.pc = "pollfetch"]]
        /\ UNCHANGED <<now, env, keyStates, quota, ledgerCost, sessions,
                       admitted, anyFailure, failOrder, alertMarker, delivered,
                       oauthStates, userSessions, analytics>>

\* pollDeviceToken: the provider answers; handlePoll goes on to
\* createSession on success and answers the status otherwise.
PollFetch(p, data) ==
    LET r  == req[p]
        st == PollStatus(data)
    IN  /\ r.pc = "pollfetch"
        /\ req' = [req EXCEPT ![p] =
              IF st = "success" /\ data.access_token # None
              THEN [r EXCEPT !.pc = "exchange", !.answer = data, !.result = st]
              ELSE [Respond(r, 200, st) EXCEPT !.answer = data, !.result = st]]
        /\ UNCHANGED <<now, started, env, keyStates, quota, ledgerCost,
                       sessions, admitted, anyFailure, failOrder, alertMarker,
                       delivered, oauthStates, userSessions, analytics>>

\* pollDeviceToken: the fetch or the parsing of its body rejects.
PollFetchThrows(p) ==
    LET r == req[p]
    IN  /\ r.pc = "pollfetch"
        /\ req' = [req EXCEPT ![p] = AuthThrows(r)]
        /\ UNCHANGED <<now, started, env, keyStates, quota, ledgerCost,
                       sessions, admitted, anyFailure, failOrder, alertMarker,
                       delivered, oauthStates, userSessions, analytics>>

(***************************************************************************)
(* Specifications                                                          *)
(***************************************************************************)
SessionExpiry == 0    \* expiresAt of the stored session, in clock ticks

\* getSession(token) at time t returns a Session: the store holds one for
\* the token and it has not expired.
SessionLive(token, t) ==
    /\ token \in DOMAIN sessions
    /\ ~(sessions[token] < t)

\* The store holds a record for the token whose expiresAt has passed.
SessionStale(token, t) ==
    /\ token \in DOMAIN sessions
    /\ sessions[token] < t

Min(a, b) == IF a < b THEN a ELSE b

\* What the caller of the outermost function gets when it returns: the
\* value for a direct call, the response of GET / DELETE auth/me.
Returns(r, value) ==
    IF r.op = "me"
    THEN [Respond(r, 200, IF value = "session" THEN "AUTHENTICATED"
                          ELSE "UNAUTHENTICATED") EXCEPT !.result = value]
    ELSE IF r.op = "logout"
    THEN Respond(r, 200, "LOGGED_OUT")
    ELSE [r EXCEPT !.pc = "done", !.result = value]

\* getSession(token) begins: without a token it returns null at once,
\* otherwise its redisClient.get is in flight.  depth is the number of
\* deleteSession calls that are waiting for it.
LookupStarts(p, how, name, token, frames) ==
    LET r == [IdleReq EXCEPT !.via = how, !.op = name, !.token = token,
                             !.bearer = token, !.depth = frames]
    IN  /\ req[p].pc = "idle"
        /\ started < MaxRequests
        /\ started' = started + 1
        /\ req' = [req EXCEPT ![p] =
              IF token # <<>> THEN [r EXCEPT !.pc = "sessget"]
              ELSE IF frames > 0 THEN [r EXCEPT !.pc = "sessdel"]
              ELSE Returns(r, None)]
        /\ UNCHANGED <<now, env, keyStates, quota, ledgerCost, sessions,
                       admitted, anyFailure, failOrder, alertMarker, delivered,
                       oauthStates, userSessions, analytics>>

\* A request without 'Authorization: Bearer ...' is answered at once.
NoBearer(p, how, name, status, code) ==
    /\ req[p].pc = "idle"
    /\ started < MaxRequests
    /\ started' = started + 1
    /\ req' = [req EXCEPT ![p] =
                 [IdleReq EXCEPT !.via = how, !.op = name, !.pc = "done",
                                 !.status = status, !.code = code]]
    /\ UNCHANGED <<now, env, keyStates, quota, ledgerCost, sessions, admitted,
                   anyFailure, failOrder, alertMarker, delivered, oauthStates,
                   userSessions, analytics>>

IsBearer(auth) == auth # <<>> /\ auth[1] = "Bearer"

\* validateRequest(request): without a Bearer header it answers at once.
CallValidateRequest(p, i) ==
    LET h == Inputs[i]
    IN  IF IsBearer(h.auth)
        THEN LookupStarts(p, "direct", "validateRequest", h.auth[2], 0)
        ELSE NoBearer(p, "direct", "validateRequest", 0, None)

CallGetSession(p, token) == LookupStarts(p, "direct", "getSession", token, 0)

\* deleteSession(token): it first awaits getSession(token).
CallDeleteSession(p, token) ==
    LookupStarts(p, "direct", "deleteSession", token, 1)

\* Authorization headers of the requests to auth/me; the last is the
\* header 'Bearer ' with nothing behind it.
AuthHeaders ==
    {<<>>, <<"Bearer", TokenGood>>, <<"Bearer", TokenBad>>, <<"Bearer", <<>>>>}

\* GET auth/me: handleGetUser awaits validateRequest(request).
GetUser(p, auth) ==
    IF IsBearer(auth)
    THEN LookupStarts(p, "http", "me", auth[2], 0)
    ELSE NoBearer(p, "http", "me", 200, "UNAUTHENTICATED")

\* DELETE auth/me: handleLogout answers 401 without a Bearer header and
\* awaits deleteSession(token) otherwise.
Logout(p, auth) ==
    IF IsBearer(auth)
    THEN LookupStarts(p, "http", "logout", auth[2], 1)
    ELSE NoBearer(p, "http", "logout", 401, "NOT_AUTHENTICATED")

\* getSession read an expired record: it awaits deleteSession(token),
\* which first awaits getSession(token), which reads the store again.
\* Calls nested deeper than MaxDepth are counted as MaxDepth; reads is the
\* parity of the store reads the call has made.
ExpiredFound(r) ==
    [r EXCEPT !.depth = Min(r.depth + 1, MaxDepth),
              !.reads = (r.reads + 1) % 2]

\* getSession: redisClient.get, the store answering.
SessionGet(p) ==
    LET r     == req[p]
        value == IF r.token \in DOMAIN sessions THEN "session" ELSE None
    IN  /\ r.pc = "sessget"
        /\ req' = [req EXCEPT ![p] =
              IF SessionStale(r.token, now) THEN ExpiredFound(r)
              ELSE IF r.depth > 0
              THEN [r EXCEPT !.pc = "sessdel", !.session = (value = "session")]
              ELSE Returns(r, value)]
        /\ UNCHANGED <<now, started, env, keyStates, quota, ledgerCost,
                       sessions, admitted, anyFailure, failOrder, alertMarker,
                       delivered, oauthStates, userSessions, analytics>>

\* A deleteSession call returns.  The outermost one returns to the caller;
\* any other was awaited by a getSession, which returns null to the
\* deleteSession that awaited it, and that one goes on to its del.
FrameReturns(r) ==
    IF r.depth = 1 THEN Returns([r EXCEPT !.depth = 0], None)
    ELSE [r EXCEPT !.depth = r.depth - 1, !.pc = "sessdel", !.session = FALSE]

\* deleteSession: redisClient.del, the store answering; without a session
\* from getSession it returns.
SessionDel(p) ==
    LET r == req[p]
    IN  /\ r.pc = "sessdel"
        /\ sessions' = [t \in DOMAIN sessions \ {r.token} |-> sessions[t]]
        /\ req' = [req EXCEPT ![p] =
              IF r.session THEN [r EXCEPT !.pc = "sessrem"]
              ELSE FrameReturns(r)]
        /\ UNCHANGED <<now, started, env, keyStates, quota, ledgerCost,
                       admitted, anyFailure, failOrder, alertMarker, delivered,
                       oauthStates, userSessions, analytics>>

\* deleteSession: redisClient.srem on the reverse lookup of the session's
\* user, the store answering; deleteSession returns.
SessionRem(p) ==
    LET r   == req[p]
        key == SremKey(SessionUserId(GitHubUserId))
    IN  /\ r.pc = "sessrem"
        /\ userSessions' = [userSessions EXCEPT ![key] = @ \ {r.token}]
        /\ req' = [req EXCEPT ![p] = FrameReturns(r)]
        /\ UNCHANGED <<now, started, env, keyStates, quota, ledgerCost,
                       sessions, admitted, anyFailure, failOrder, alertMarker,
                       delivered, oauthStates, analytics>>

\* A store call of the lookup rejects.  handleLogout catches and answers
\* 500; no other function on the way catches, so GET auth/me ends with
\* the platform's answer to a handler that rejected.
SessionThrows(p) ==
    LET r == req[p]
    IN  /\ r.pc \in {"sessget", "sessdel", "sessrem"}
        /\ req' = [req EXCEPT ![p] =
              IF r.op = "logout" THEN Respond(r, 500, "LOGOUT_FAILED")
              ELSE IF r.op = "me"
              THEN [Respond(r, 500, "UNCAUGHT") EXCEPT !.thrown = "eStore"]
              ELSE [r EXCEPT !.pc = "done", !.thrown = "eStore"]]
        /\ UNCHANGED <<now, started, env, keyStates, quota, ledgerCost,
                       sessions, admitted, anyFailure, failOrder, alertMarker,
                       delivered, oauthStates, userSessions, analytics>>

\* The store evicts a session record: its TTL, which began at the write
\* that followed the computation of expiresAt, is over.
EvictSession(token) ==
    /\ SessionStale(token, now)
    /\ sessions' = [t \in DOMAIN sessions \ {token} |-> sessions[t]]
    /\ UNCHANGED <<now, started, env, keyStates, quota, ledgerCost, req,
                   admitted, anyFailure, failOrder, alertMarker, delivered,
                   oauthStates,
                   userSessions, analytics>>

\* The store outlives every gateway instance: an instance starts against
\* whatever earlier invocations left in it.  Quota windows of the current
\* day are empty or Headroom short of their limit; today's ledger is empty
\* or one unit short of the cap.
InitStore ==
    /\ \E inUse \in BOOLEAN :
          quota = [k \in QuotaKeys |->
                     IF inUse /\ k[3] = 0 THEN TierLimit(k[1]) - Headroom ELSE 0]
    /\ admitted = quota
    /\ \E c \in {0, CapUnits - 1} :
          /\ ledgerCost = [d \in Days |-> IF d = 0 THEN c ELSE 0]
          /\ analytics = [d \in Days |-> IF d = 0 THEN RecordedTimes(NoKeys, c)
                                          ELSE NoKeys]
    /\ sessions = [t \in {TokenGood} |-> SessionExpiry]
    /\ alertMarker = [k \in AlertKeys |-> Null]
    /\ oauthStates = {}
    /\ userSessions = InitIndex

InitProcess ==
    /\ now = 0
    /\ started = 0
    /\ keyStates = [n \in {} |-> NewKeyState]
    /\ req = [p \in Slots |-> IdleReq]
    /\ anyFailure = FALSE
    /\ failOrder = <<>>
    /\ delivered = [a \in AlertLevels \X (0..MaxNow) |-> 0]

\* The gateway serving one invocation at a time, with no key or one key
\* configured.
Solo == {1}

Init ==
    /\ InitProcess
    /\ InitStore
    /\ env \in {{}, {"primary"}}

Next ==
    \/ \E p \in Solo, rq \in Requests : Receive(p, rq)
    \/ \E p \in Solo : RateLimit(p)
    \/ \E p \in Solo : RateLimitThrows(p)
    \/ \E p \in Solo : BudgetCheck(p)
    \/ \E p \in Solo : BudgetCheckThrows(p)
    \/ \E p \in Solo, a \in Answers : UpstreamOk(p, a)
    \/ \E p \in Solo, e \in GatewayErrors : UpstreamRateLimited(p, e)
    \/ \E p \in Solo, e \in GatewayErrors : UpstreamInvalidKey(p, e)
    \/ \E p \in Solo, e \in GatewayErrors : UpstreamOtherError(p, e)
    \/ \E p \in Solo : TrackExec(p)
    \/ \E p \in Solo : TrackFails(p)
    \/ \E p \in Solo : CheckBudget(p)
    \/ \E p \in Solo : CheckBudgetBlind(p)
    \/ \E p \in Solo : AlertGet(p)
    \/ \E p \in Solo : AlertGetThrows(p)
    \/ \E p \in Solo : AlertFetch(p)
    \/ \E p \in Solo : AlertFetchFails(p)
    \/ \E p \in Solo : AlertSet(p)
    \/ \E p \in Solo : AlertSetFails(p)
    \/ \E p \in Solo : Release(p)
    \/ Tick

Spec == Init /\ [][Next]_vars

\* The store settles the call slot p awaits: it answers or the call rejects.
StoreAnswers(p) ==
    \/ RateLimit(p) \/ RateLimitThrows(p)
    \/ BudgetCheck(p) \/ BudgetCheckThrows(p)
    \/ TrackExec(p) \/ TrackFails(p)
    \/ CheckBudget(p) \/ CheckBudgetBlind(p)
    \/ AlertGet(p) \/ AlertGetThrows(p)
    \/ AlertFetch(p) \/ AlertFetchFails(p)
    \/ AlertSet(p) \/ AlertSetFails(p)

\* The gateway with a store that settles every call made to it and an
\* upstream that may leave a call unanswered.
SpecFair ==
    Spec /\ \A p \in Solo : WF_vars(StoreAnswers(p))

\* The admission path under concurrent invocations, on a deployment with
\* no key configured: every request that passes both gates ends in
\* CONFIG_ERROR without an upstream call.
InitAdmission ==
    /\ InitProcess
    /\ InitStore
    /\ env = {}

NextAdmission ==
    \/ \E p \in Slots, rq \in Requests : Receive(p, rq)
    \/ \E p \in Slots : RateLimit(p)
    \/ \E p \in Slots : RateLimitThrows(p)
    \/ \E p \in Slots : BudgetCheck(p)
    \/ \E p \in Slots : BudgetCheckThrows(p)
    \/ \E p \in Slots : Release(p)
    \/ Tick

SpecAdmission == InitAdmission /\ [][NextAdmission]_vars

\* The pool under direct generateWithRotation calls.
InitPool ==
    /\ InitProcess
    /\ quota = [k \in QuotaKeys |-> 0]
    /\ admitted = quota
    /\ ledgerCost = [d \in Days |-> 0]
    /\ sessions = [t \in {TokenGood} |-> SessionExpiry]
    /\ alertMarker = [k \in AlertKeys |-> Null]
    /\ oauthStates = {}
    /\ userSessions = InitIndex
    /\ analytics = NoTraffic
    /\ env \in {{}, {"primary"}, {"primary", "fallback1"}, KeyNames}

NextPool ==
    \/ \E p \in Slots : CallGenerate(p)
    \/ \E p \in Slots, a \in Answers : UpstreamOk(p, a)
    \/ \E p \in Slots, e \in UpstreamErrors : UpstreamRateLimited(p, e)
    \/ \E p \in Slots, e \in UpstreamErrors : UpstreamInvalidKey(p, e)
    \/ \E p \in Slots, e \in UpstreamErrors : UpstreamOtherError(p, e)
    \/ \E p \in Slots : Release(p)
    \/ Tick

SpecPool == InitPool /\ [][NextPool]_vars

\* trackRequest under concurrent calls, as the handlers of successful
\* requests make them.
TrackUnits == {CostUnits(EstimatedTokens(8, n)) : n \in TextLengths}

InitTrack ==
    /\ InitProcess
    /\ InitStore
    /\ env = {}

NextTrack ==
    \/ \E p \in Slots, u \in TrackUnits : CallTrack(p, u)
    \/ \E p \in Slots : TrackExec(p)
    \/ \E p \in Slots : TrackFails(p)
    \/ \E p \in Slots : CheckBudget(p)
    \/ \E p \in Slots : CheckBudgetBlind(p)
    \/ \E p \in Slots : AlertGet(p)
    \/ \E p \in Slots : AlertGetThrows(p)
    \/ \E p \in Slots : AlertFetch(p)
    \/ \E p \in Slots : AlertFetchFails(p)
    \/ \E p \in Slots : AlertSet(p)
    \/ \E p \in Slots : AlertSetFails(p)
    \/ \E p \in Slots : Release(p)
    \/ Tick

SpecTrack == InitTrack /\ [][NextTrack]_vars

\* The upstream call of slot p settles: it resolves or it rejects.
UpstreamAnswers(p) ==
    \/ \E a \in Answers : UpstreamOk(p, a)
    \/ \E e \in UpstreamErrors : UpstreamRateLimited(p, e)
    \/ \E e \in UpstreamErrors : UpstreamInvalidKey(p, e)
    \/ \E e \in UpstreamErrors : UpstreamOtherError(p, e)

\* The OAuth callback and other callers of validateState, two invocations
\* at a time, against a store that holds one nonce.
InitAuth ==
    /\ InitProcess
    /\ env = {}
    /\ quota = [k \in QuotaKeys |-> 0]
    /\ admitted = quota
    /\ ledgerCost = [d \in Days |-> 0]
    /\ sessions = [t \in {TokenGood} |-> SessionExpiry]
    /\ alertMarker = [k \in AlertKeys |-> Null]
    /\ oauthStates = {NonceStored}
    /\ userSessions = InitIndex
    /\ analytics = NoTraffic

NextAuth ==
    \/ \E p \in Slots, n \in {NonceStored, NonceUnknown} : CallValidateState(p, n)
    \/ \E p \in Slots, q \in Callbacks : CallbackReceive(p, q)
    \/ \E p \in Slots : StateGet(p)
    \/ \E p \in Slots : StateDel(p)
    \/ \E p \in Slots : StateThrows(p)
    \/ \E n \in {NonceStored} : ExpireState(n)
    \/ \E p \in Slots : Exchange(p)
    \/ \E p \in Slots : CreateSession(p)
    \/ \E p \in Slots : SessionIndexed(p)
    \/ \E p \in Slots : ExchangeThrows(p)
    \/ \E p \in Slots : Release(p)
    \/ Tick

SpecAuth == InitAuth /\ [][NextAuth]_vars

\* Session lookups and logouts, two at a time, against a store that holds
\* one session.
InitSession ==
    /\ InitProcess
    /\ env = {}
    /\ quota = [k \in QuotaKeys |-> 0]
    /\ admitted = quota
    /\ ledgerCost = [d \in Days |-> 0]
    /\ sessions = [t \in {TokenGood} |-> SessionExpiry]
    /\ alertMarker = [k \in AlertKeys |-> Null]
    /\ oauthStates = {}
    /\ userSessions = InitIndex
    /\ analytics = NoTraffic

NextSession ==
    \/ \E p \in Slots, i \in 1..Len(Inputs) : CallValidateRequest(p, i)
    \/ \E p \in Slots, t \in {TokenGood, TokenBad} : CallGetSession(p, t)
    \/ \E p \in Slots, t \in {TokenGood, TokenBad} : CallDeleteSession(p, t)
    \/ \E p \in Slots : SessionGet(p)
    \/ \E p \in Slots : SessionDel(p)
    \/ \E p \in Slots : SessionRem(p)
    \/ \E p \in Slots : SessionThrows(p)
    \/ \E t \in {TokenGood} : EvictSession(t)
    \/ \E p \in Slots : Release(p)
    \/ Tick

SpecSession == InitSession /\ [][NextSession]_vars

\* The store answers every call of a lookup; it may keep an expired
\* record for as long as it likes.
SessionStoreAnswers(p) == SessionGet(p) \/ SessionDel(p) \/ SessionRem(p)

SpecSessionFair ==
    SpecSession /\ \A p \in Slots : WF_vars(SessionStoreAnswers(p))

\* GET and DELETE auth/me, two requests at a time, against a store that
\* holds one session.
NextMe ==
    \/ \E p \in Slots, a \in AuthHeaders : GetUser(p, a)
    \/ \E p \in Slots, a \in AuthHeaders : Logout(p, a)
    \/ \E p \in Slots : SessionGet(p)
    \/ \E p \in Slots : SessionDel(p)
    \/ \E p \in Slots : SessionRem(p)
    \/ \E p \in Slots : SessionThrows(p)
    \/ \E t \in {TokenGood} : EvictSession(t)
    \/ \E p \in Slots : Release(p)
    \/ Tick

SpecMe == InitSession /\ [][NextMe]_vars

SpecMeFair ==
    SpecMe /\ \A p \in Slots : WF_vars(SessionStoreAnswers(p))

\* The device flow's poll endpoint and session lookups with the tokens it
\* returned, two invocations at a time.
NextDevice ==
    \/ \E p \in Slots, q \in Polls : PollReceive(p, q)
    \/ \E p \in Slots, d \in ProviderAnswers : PollFetch(p, d)
    \/ \E p \in Slots : PollFetchThrows(p)
    \/ \E p \in Slots : Exchange(p)
    \/ \E p \in Slots : CreateSession(p)
    \/ \E p \in Slots : SessionIndexed(p)
    \/ \E p \in Slots : ExchangeThrows(p)
    \/ \E p, q \in Slots :
          /\ req[q].op = "poll" /\ req[q].pc = "done" /\ req[q].token # <<>>
          /\ CallGetSession(p, req[q].token)
    \/ \E p \in Slots : SessionGet(p)
    \/ \E p \in Slots : Release(p)
    \/ Tick

SpecDevice == InitSession /\ [][NextDevice]_vars

\* Both tiered endpoints and the functions of lib/rate-limit, two
\* invocations at a time, no key configured.
RequestsTiered ==
    {[method |-> "POST", body |-> "json", promptLen |-> 8, input |-> i] :
        i \in 1..Len(Inputs)}

NextLimits ==
    \/ \E p \in Slots, rq \in RequestsTiered : Receive(p, rq)
    \/ \E p \in Slots : RateLimit(p)
    \/ \E p \in Slots : RateLimitThrows(p)
    \/ \E p \in Slots : BudgetCheck(p)
    \/ \E p \in Slots : BudgetCheckThrows(p)
    \/ \E p \in Slots, m \in {"GET", "POST", "OPTIONS"}, i \in 1..Len(Inputs) :
          LimitsReceive(p, m, i)
    \/ \E p \in Slots : LimitsRead(p)
    \/ \E p \in Slots : LimitsReadThrows(p)
    \/ \E p \in Slots, id \in Identities : CallGetRateLimitStatus(p, id)
    \/ \E p \in Slots : StatusRead(p)
    \/ \E p \in Slots : StatusReadThrows(p)
    \/ \E p \in Slots, id \in Identities : CallCheckRateLimit(p, id)
    \/ \E p \in Slots : CheckRateLimit(p)
    \/ \E p \in Slots : CheckRateLimitThrows(p)
    \/ \E p \in Slots : Release(p)
    \/ Tick

SpecLimits == InitAdmission /\ [][NextLimits]_vars

\* The readers of the day's counters, against every content of a day's
\* keys: each counter missing or set, no, one or two users in the sorted
\* set.  The store is not written here, so the readers do not affect
\* each other and are run one at a time.
DrawnCounts == {Null, 3}

DrawnUsers ==
    {<<>>,
     [m \in {AnonId} |-> 2],
     [m \in {AnonId, <<"github", <<"n","e","o">>>>} |-> 1]}

InitMetrics ==
    /\ InitProcess
    /\ env = {}
    /\ quota = [k \in QuotaKeys |-> 0]
    /\ admitted = quota
    /\ \E c \in {0, CapUnits - 1} :
          ledgerCost = [d \in Days |-> IF d = 0 THEN c ELSE 0]
    /\ \E cs \in [Counters -> DrawnCounts], us \in DrawnUsers :
          analytics = [d \in Days |-> IF d = 0 THEN [counters |-> cs, users |-> us]
                                      ELSE NoKeys]
    /\ sessions = [t \in {TokenGood} |-> SessionExpiry]
    /\ alertMarker = [k \in AlertKeys |-> Null]
    /\ oauthStates = {}
    /\ userSessions = InitIndex

NextMetrics ==
    \/ \E p \in Solo : CallGetTodayMetrics(p)
    \/ \E p \in Solo, d \in Days \cup {Day(MaxNow) + 1} :
          CallGetMetricsForDate(p, d)
    \/ \E p \in Solo, k \in ReadKeys("getTodayMetrics") : MetricsGet(p, k)
    \/ \E p \in Solo : MetricsReadThrows(p)
    \/ \E p \in Solo : Release(p)
    \/ Tick

SpecMetrics == InitMetrics /\ [][NextMetrics]_vars

\* trackRequest calls with one reader of the day's counters at a time
\* beside them.
\* checkBudgetAndAlert under another DAILY_BUDGET_CAP: the call of
\* trackRequest, in a process whose environment gives the cap `cap`.
CallTrackUnder(p, units, cap) ==
    /\ req[p].pc = "idle"
    /\ started < MaxRequests
    /\ started' = started + 1
    /\ req' = [req EXCEPT ![p] =
                 [IdleReq EXCEPT !.via = "direct", !.pc = "track",
                                 !.tier = "anonymous", !.userId = AnonId,
                                 !.trackTokens =
                                     IF units = 0 THEN EstimatedTokens(8, 8)
                                     ELSE EstimatedTokens(8, 200),
                                 !.trackDay = Day(now), !.trackUnits = units,
                                 !.cap = cap]]
    /\ UNCHANGED <<now, env, keyStates, quota, ledgerCost, sessions, admitted,
                   anyFailure, failOrder, alertMarker, delivered, oauthStates,
                   userSessions, analytics>>

\* RecordedTimes(NoKeys, n) in closed form.
RecordedUnits(n) ==
    IF n = 0 THEN NoKeys
    ELSE [counters |->
             [c \in Counters |->
                 IF c = "tokens" THEN n * EstimatedTokens(8, 200)
                 ELSE IF c = "tier:authenticated" THEN Null
                 ELSE n],
          users |-> [m \in {AnonId} |-> n]]

\* The ledger of the day as earlier invocations left it: any cost up to
\* the largest cap.
InitAlert ==
    /\ InitProcess
    /\ env = {}
    /\ quota = [k \in QuotaKeys |-> 0]
    /\ admitted = quota
    /\ \E c \in 0..(7 * CapUnits) :
          /\ ledgerCost = [d \in Days |-> IF d = 0 THEN c ELSE 0]
          /\ analytics = [d \in Days |-> IF d = 0 THEN RecordedUnits(c)
                                          ELSE NoKeys]
    /\ sessions = [t \in {TokenGood} |-> SessionExpiry]
    /\ alertMarker = [k \in AlertKeys |-> Null]
    /\ oauthStates = {}
    /\ userSessions = InitIndex

NextAlert ==
    \/ \E p \in Solo, u \in TrackUnits, c \in Caps : CallTrackUnder(p, u, c)
    \/ \E p \in Solo : TrackExec(p)
    \/ \E p \in Solo : TrackFails(p)
    \/ \E p \in Solo : CheckBudget(p)
    \/ \E p \in Solo : CheckBudgetBlind(p)
    \/ \E p \in Solo : AlertGet(p)
    \/ \E p \in Solo : AlertGetThrows(p)
    \/ \E p \in Solo : AlertFetch(p)
    \/ \E p \in Solo : AlertFetchFails(p)
    \/ \E p \in Solo : AlertSet(p)
    \/ \E p \in Solo : AlertSetFails(p)
    \/ \E p \in Solo : Release(p)
    \/ Tick

SpecAlert == InitAlert /\ [][NextAlert]_vars

\* POST generate served one request at a time, and GET limits requests
\* served alongside in the other slots.
NextQuota ==
    \/ Next
    \/ \E p \in Slots \ Solo, i \in CoreInputs : LimitsReceive(p, "GET", i)
    \/ \E p \in Slots \ Solo : LimitsRead(p)
    \/ \E p \in Slots \ Solo : LimitsReadThrows(p)
    \/ \E p \in Slots \ Solo : Release(p)

SpecQuota == Init /\ [][NextQuota]_vars

(***************************************************************************)
(* GET health                                                              *)
(***************************************************************************)
\* The status code for a health status.
StatusCode(status) == IF status = "unhealthy" THEN 503 ELSE 200

\* The handler returns the HealthResponse r has built.
HealthResponds(r) == Respond(r, StatusCode(r.health), r.health)

\* GET health arrives: any method but GET is answered 405; else the
\* response starts out healthy and the handler awaits redis.ping().
HealthReceive(p, method, includeMetrics) ==
    LET r == [IdleReq EXCEPT !.via = "http", !.op = "health",
                             !.method = method,
                             !.includeMetrics = includeMetrics]
    IN  /\ req[p].pc = "idle"
        /\ started < MaxRequests
        /\ started' = started + 1
        /\ req' = [req EXCEPT ![p] =
              IF method # "GET" THEN Respond(r, 405, "METHOD_NOT_ALLOWED")
              ELSE [r EXCEPT !.pc = "ping", !.health = "healthy",
                             !.redis = "ok", !.gemini = "ok"]]
        /\ UNCHANGED <<now, env, keyStates, quota, ledgerCost, sessions,
                       admitted, anyFailure, failOrder, alertMarker, delivered,
                       oauthStates, userSessions, analytics>>

\* The key check: getKeyHealth() over the Map ks, and the component and
\* status it leads to.
KeyChecked(r, ks, e) ==
    LET keys        == GetConfiguredKeys(e)
        healthyKeys == Len(SelectSeq(keys, LAMBDA n : ks[n].isHealthy))
        totalKeys   == Len(keys)
        counted     == [r EXCEPT !.healthyKeys = healthyKeys,
                                 !.totalKeys = totalKeys]
    IN  IF totalKeys = 0 \/ healthyKeys = 0
        THEN [counted EXCEPT !.gemini = "error", !.health = "unhealthy"]
        ELSE IF healthyKeys < totalKeys
        THEN [counted EXCEPT !.gemini = "degraded",
                             !.health = IF @ = "healthy" THEN "degraded" ELSE @]
        ELSE counted

\* The catch block around the key check.
KeyCheckThrows(r) == [r EXCEPT !.gemini = "error", !.health = "degraded"]

\* What follows the ping in the same turn: the key check and, without
\* metrics=true, the response; with it the handler awaits getTodayMetrics().
AfterPing(p, r) ==
    LET ks == WithKeyStates(keyStates, env)
        kc == KeyChecked(r, ks, env)
    IN  /\ keyStates' = ks
        /\ req' = [req EXCEPT ![p] =
              IF r.includeMetrics THEN [kc EXCEPT !.pc = "healthmetrics"]
              ELSE HealthResponds(kc)]

\* redis.ping() is answered.
HealthPing(p) ==
    /\ req[p].pc = "ping"
    /\ AfterPing(p, req[p])
    /\ UNCHANGED <<now, started, env, quota, ledgerCost, sessions, admitted,
                   anyFailure, failOrder, alertMarker, delivered, oauthStates,
                   userSessions, analytics>>

\* redis.ping() rejects, the store being unreachable.
HealthPingFails(p) ==
    /\ req[p].pc = "ping"
    /\ AfterPing(p, [req[p] EXCEPT !.redis = "error", !.health = "unhealthy",
                                   !.storeFailed = TRUE])
    /\ UNCHANGED <<now, started, env, quota, ledgerCost, sessions, admitted,
                   anyFailure, failOrder, alertMarker, delivered, oauthStates,
                   userSessions, analytics>>

\* redis.ping() rejects, UPSTASH_REDIS_REST_URL or _TOKEN being unset:
\* with metrics=true, getRedis() throws in getTodayMetrics() before its
\* try block and the handler's catch block takes over.
HealthPingUnconfigured(p) ==
    LET r  == [req[p] EXCEPT !.redis = "error", !.health = "unhealthy",
                             !.storeFailed = TRUE]
        ks == WithKeyStates(keyStates, env)
        kc == KeyChecked(r, ks, env)
    IN  /\ req[p].pc = "ping"
        /\ keyStates' = ks
        /\ req' = [req EXCEPT ![p] =
              IF r.includeMetrics THEN HealthResponds(KeyCheckThrows(kc))
              ELSE HealthResponds(kc)]
        /\ UNCHANGED <<now, started, env, quota, ledgerCost, sessions,
                       admitted, anyFailure, failOrder, alertMarker, delivered,
                       oauthStates, userSessions, analytics>>

\* getTodayMetrics() returns, with the store's answers or, the store
\* failing, with zeros.
HealthMetrics(p) ==
    /\ req[p].pc = "healthmetrics"
    /\ req' = [req EXCEPT ![p] = HealthResponds(req[p])]
    /\ UNCHANGED <<now, started, env, keyStates, quota, ledgerCost, sessions,
                   admitted, anyFailure, failOrder, alertMarker, delivered,
                   oauthStates, userSessions, analytics>>

\* generateWithRotation calls, and GET health requests served alongside
\* one at a time.
NextHealth ==
    \/ NextPool
    \/ \E p \in Solo, m \in {"GET", "POST"}, i \in BOOLEAN : HealthReceive(p, m, i)
    \/ \E p \in Solo : HealthPing(p)
    \/ \E p \in Solo : HealthPingFails(p)
    \/ \E p \in Solo : HealthPingUnconfigured(p)
    \/ \E p \in Solo : HealthMetrics(p)

SpecHealth == InitPool /\ [][NextHealth]_vars

NextRecord ==
    \/ NextTrack
    \/ \E p \in Solo : CallGetTodayMetrics(p)
    \/ \E p \in Solo, d \in Days : CallGetMetricsForDate(p, d)
    \/ \E p \in Solo, k \in ReadKeys("getTodayMetrics") : MetricsGet(p, k)
    \/ \E p \in Solo : MetricsReadThrows(p)

SpecRecord == InitTrack /\ [][NextRecord]_vars

\* The pool with an upstream that settles every call made to it.
SpecPoolFair ==
    SpecPool /\ \A p \in Slots : WF_vars(UpstreamAnswers(p))

TypeOK ==
    /\ now \in 0..MaxNow
    /\ started \in 0..MaxRequests
    /\ env \subseteq KeyNames
    /\ DOMAIN keyStates \subseteq env
    /\ \A p \in Slots :
          req[p].pc \in {"idle", "ratelimit", "budget", "upstream", "track",
                         "metrics", "alertget", "alertfetch", "alertset",
                         "stateget", "statedel", "exchange", "mint", "sadd",
                         "pollfetch", "getremaining", "getRateLimitStatus",
                         "checkRateLimit", "readmetrics",
                         "ping", "healthmetrics",
                         "sessget", "sessdel", "sessrem", "done"}

(***************************************************************************)
(* What a step did, read off the two states of the step                    *)
(***************************************************************************)
\* Slot p ran selectKey() in this step and got a key.
Selects(p) ==
    /\ req'[p].pc = "upstream"
    /\ req[p].pc # "upstream" \/ req'[p].attempt # req[p].attempt

\* Slot p ran selectKey() in this step and got null.
SelectsNone(p) ==
    /\ req[p].pc # "done"
    /\ req'[p].pc = "done"
    /\ req'[p].thrown = "eNoKeys"

\* Slot p's upstream call succeeded in this step.
Succeeds(p) ==
    /\ req[p].pc = "upstream"
    /\ req'[p].keyUsed # None

\* The pool as selectKey() of slot p found it in this step: a key without
\* an entry is created healthy and never used; when the step began with
\* the failure of p's previous attempt, that key has just been marked.
HealthAtSelect(p, n) ==
    IF n \notin DOMAIN keyStates THEN TRUE
    ELSE IF req[p].pc = "upstream" /\ req[p].keyInfo = n THEN FALSE
    ELSE keyStates[n].isHealthy

LastUsedAtSelect(n) ==
    IF n \in DOMAIN keyStates THEN keyStates[n].lastUsed ELSE Null

RequestCount(n) ==
    IF n \in DOMAIN keyStates THEN keyStates[n].requestCount ELSE 0

\* lastUsed a is not later than lastUsed b (null is oldest).
NotLater(a, b) == a = Null \/ (b # Null /\ a <= b)

Quiescent == \A p \in Slots : req[p].pc \in {"idle", "done"}

(***************************************************************************)
(* Admission                                                               *)
(***************************************************************************)
\* Slot p gets the answer of its rate-limit call in this step.
LimitAnswered(p) == req[p].pc = "ratelimit" /\ req'[p].pc # "ratelimit"

\* Slot p leaves its budget check in this step.
BudgetAnswered(p) == req[p].pc = "budget" /\ req'[p].pc # "budget"

\* Slot p has been handed to a key, or has recorded usage.
Dispatched(r) == r.keyInfo # None \/ r.keyUsed # None \/ r.pc = "track"

\* C1: for every identity, tier and daily window, the number of requests
\* the limiter admitted is at most the tier's limit (5 anonymous, 25
\* authenticated), whatever the interleaving of concurrent invocations.
Thm_C1_AdmissionsWithinLimit ==
    \A k \in QuotaKeys : admitted[k] <= TierLimit(k[1])

\* Two invocations of one identity in flight together: one took the last
\* admission of the window, the other was answered 429.
Wit_C1_LastAdmissionRaced ==
    \E p \in Slots, q \in Slots :
        /\ p # q
        /\ req[p].pc = "budget"
        /\ req[p].used = TierLimit(req[p].tier)
        /\ req[q].status = 429
        /\ req[q].userId = req[p].userId
        /\ req[q].tier = req[p].tier
        /\ req[q].used = req[p].used + 1
        /\ admitted[<<req[p].tier, req[p].userId, Day(now)>>] = TierLimit(req[p].tier)

\* C2: a request whose bearer token does not resolve to a stored,
\* unexpired Session is treated as anonymous.
Cex_C2_UnresolvedTokenIsAnonymous ==
    [][\A p \in Slots :
          (/\ req[p].pc = "idle"
           /\ req'[p].pc = "ratelimit"
           /\ req'[p].bearer # <<>>
           /\ ~SessionLive(req'[p].bearer, now))
          => req'[p].tier = "anonymous"]_vars

\* C3: the k-th request of an anonymous identity in a window that is
\* served reports remaining 5 - k; the sixth and later ones are answered
\* 429 RATE_LIMIT_EXCEEDED.
Cex_C3_RemainingCountsDown ==
    \A p \in Slots :
        (req[p].tier = "anonymous" /\ req[p].used > 0) =>
            IF req[p].used <= AnonLimit
            THEN req[p].status = 200 => req[p].repRemaining = AnonLimit - req[p].used
            ELSE req[p].status = 429 /\ req[p].code = "RATE_LIMIT_EXCEEDED"

\* C4: the budget check returns "exceeded" exactly when the cost recorded
\* for the current UTC day has reached the cap.
Cex_C4_ExceededIffCostAtCap ==
    [][\A p \in Slots :
          BudgetAnswered(p) =>
              (req'[p].code = "BUDGET_EXCEEDED" <=>
                  ledgerCost[Day(now)] >= CapUnits)]_vars

\* C5: a request whose budget check reads a cost at or over the cap is
\* answered 503 BUDGET_EXCEEDED; no key is selected, no upstream call is
\* made, no usage is recorded, and nothing more happens in the invocation.
Thm_C5_BudgetExceededStopsRequest ==
    [][\A p \in Slots :
          /\ (/\ BudgetAnswered(p)
              /\ ~req'[p].storeFailed
              /\ ledgerCost[Day(now)] >= CapUnits)
             => /\ req'[p].pc = "done"
                /\ req'[p].status = 503
                /\ req'[p].code = "BUDGET_EXCEEDED"
                /\ ~Dispatched(req'[p])
                /\ keyStates' = keyStates
                /\ ledgerCost' = ledgerCost
          /\ req[p].code = "BUDGET_EXCEEDED"
             => req'[p] \in {req[p], IdleReq}]_vars

\* A request answered BUDGET_EXCEEDED with today's ledger at the cap.
Wit_C5_BudgetRejected ==
    \E p \in Slots :
        /\ req[p].status = 503
        /\ req[p].code = "BUDGET_EXCEEDED"
        /\ ledgerCost[Day(now)] >= CapUnits

\* C6: a request during whose rate-limit or budget check the store was
\* unreachable is never dispatched upstream and ends with a 5xx answer.
Cex_C6_StoreDownFailsClosed ==
    \A p \in Slots :
        req[p].storeFailed =>
            /\ ~Dispatched(req[p])
            /\ req[p].status # 0 => req[p].status >= 500

(***************************************************************************)
(* Credential pool                                                         *)
(***************************************************************************)
\* C7: a key that selectKey() returns was healthy at the moment of the
\* selection, unless every key of the pool was unhealthy at that moment.
Thm_C7_UnhealthyOnlyWhenAllUnhealthy ==
    [][\A p \in Slots :
          Selects(p) =>
             \/ HealthAtSelect(p, req'[p].keyInfo)
             \/ \A n \in env : ~HealthAtSelect(p, n)]_vars

\* A retry selected a healthy key while another key was unhealthy and
\* another generate call was in flight.
Wit_C7_HealthyPickedOverUnhealthy ==
    \E p \in Slots, q \in Slots :
        /\ p # q
        /\ req[p].pc = "upstream" /\ req[q].pc = "upstream"
        /\ req[p].attempt = 1
        /\ keyStates[req[p].keyInfo].isHealthy
        /\ \E n \in env : ~keyStates[n].isHealthy

Abs(x) == IF x < 0 THEN -x ELSE x

CeilDiv(a, b) == (a + b - 1) \div b

Cex_C9_EvenSplit ==
    (~anyFailure /\ Quiescent /\ env # {}) =>
        LET size == Cardinality(env)
            used(n) == RequestCount(n)
            RECURSIVE Sum(_)
            Sum(S) == IF S = {} THEN 0
                      ELSE LET n == CHOOSE x \in S : TRUE
                           IN  used(n) + Sum(S \ {n})
            M == Sum(env)
        IN  \A n \in env :
               Abs(size * used(n) - M) <= size * CeilDiv(M, size)

\* C10: a call that began alone on three healthy keys and whose first two
\* attempts failed with retryable errors returns the third key's result;
\* the other two keys are left unhealthy, the third healthy, with lastUsed
\* set to the time of the success and requestCount one higher.
Thm_C10_ThirdKeySucceeds ==
    [][\A p \in Slots :
          (Succeeds(p) /\ req[p].fresh /\ req[p].attempt = 2) =>
             LET k == req[p].keyInfo
             IN  /\ req'[p].keyUsed = k
                 /\ \A n \in env \ {k} : ~keyStates'[n].isHealthy
                 /\ keyStates'[k].isHealthy
                 /\ keyStates'[k].lastUsed = now
                 /\ keyStates'[k].requestCount = keyStates[k].requestCount + 1]_vars

Wit_C10_ThirdKeySucceeded ==
    \E p \in Slots :
        /\ req[p].pc \in {"done", "track"}
        /\ req[p].fresh
        /\ req[p].attempt = 2
        /\ req[p].keyUsed # None

\* C11: when every key is unhealthy, the key whose failure is the oldest
\* one standing (every other key has failed with a retryable error since)
\* is the one selectKey() returns next.  Stated for a pool of at least two
\* keys of which at most one was never used, where the order selectKey()
\* sorts by is total.
Cex_C11_LongestFailedRetriedFirst ==
    [][\A p \in Slots :
          (/\ Selects(p)
           /\ Cardinality(env) >= 2
           /\ \A n \in env : ~HealthAtSelect(p, n)
           /\ Len(failOrder') = Cardinality(env)
           /\ Cardinality({n \in env : LastUsedAtSelect(n) = Null}) <= 1)
          => req'[p].keyInfo = failOrder'[1]]_vars

\* C12: a generate call makes at most maxRetries upstream calls; with an
\* upstream that settles every call it ends with a result or an error; and
\* when its last attempt fails with a retryable error, the error it throws
\* is the one of that attempt.
Thm_C12_BoundedAttemptsLastError ==
    /\ [](\A p \in Slots :
             /\ req[p].attempt <= maxRetries
             /\ req[p].pc = "upstream" => req[p].attempt + 1 <= maxRetries)
    /\ [][\A p \in Slots :
             (/\ req[p].pc = "upstream"
              /\ req'[p].pc = "done"
              /\ req'[p].attempt = maxRetries) =>
                LET why == keyStates'[req[p].keyInfo].lastError
                IN  /\ req'[p].keyUsed = None
                    /\ why = "Rate limited" => IsRateLimitError(req'[p].thrown)
                    /\ why = "Invalid API key" =>
                          /\ ~IsRateLimitError(req'[p].thrown)
                          /\ IsInvalidKeyError(req'[p].thrown)]_vars
    /\ \A p \in Slots :
          (req[p].pc = "upstream") ~> (req[p].pc = "done")

\* A call ended after three failed attempts of which the first was rate
\* limited and the last hit an invalid key, and threw the last error.
Wit_C12_ThreeAttemptsFailed ==
    \E p \in Slots :
        /\ req[p].pc = "done"
        /\ req[p].attempt = maxRetries
        /\ req[p].thrown = "eApiKey"
        /\ \E n \in env : keyStates[n].lastError = "Rate limited"

\* C13: an upstream call that gets no answer is abandoned at a deadline,
\* so every request that reached the upstream call gets its response, be
\* the upstream silent for ever.
Cex_C13_UpstreamCallBounded ==
    \A p \in Slots :
        (req[p].pc = "upstream") ~> (req[p].status # 0)

\* C14: a request whose attempts all failed with retryable errors (rate
\* limited or invalid key) is answered 503; 500 GENERATION_FAILED answers
\* only an upstream error that is neither.
Cex_C14_RetryableExhaustedIs503 ==
    \A p \in Slots :
        LET r == req[p]
            retryable == IsRateLimitError(r.thrown) \/ IsInvalidKeyError(r.thrown)
        IN  (r.via = "http" /\ r.pc = "done" /\ r.thrown \notin {None, "eNoKeys"}) =>
               /\ (retryable /\ r.attempt = maxRetries) => r.status = 503
               /\ (r.status = 500 /\ r.code = "GENERATION_FAILED") => ~retryable

(***************************************************************************)
(* Usage tracking and alerts                                               *)
(***************************************************************************)
\* C15: the ledger increment, the alert delivery and the alert marker
\* happen only in the tracking of a request that was answered 200 with an
\* upstream result, each at most once per request; and whatever fails in
\* the tracking, the response already given keeps its status and body and
\* no error reaches the caller.
Thm_C15_TrackingIsolated ==
    [][/\ \A p \in Slots :
             /\ (req[p].status # 0 /\ req'[p].pc # "idle") =>
                   /\ req'[p].status = req[p].status
                   /\ req'[p].code = req[p].code
                   /\ req'[p].repRemaining = req[p].repRemaining
                   /\ req'[p].thrown = req[p].thrown
             /\ req'[p].pc = "track" => req[p].pc \in {"upstream", "track"}
             /\ req'[p].pc = "alertfetch" => req[p].pc \in {"alertget", "alertfetch"}
       /\ (ledgerCost' # ledgerCost \/ delivered' # delivered
              \/ alertMarker' # alertMarker) =>
             \E p \in Slots :
                /\ req[p].status = 200
                /\ req[p].keyUsed # None
                /\ req'[p] # req[p]
                /\ ledgerCost' # ledgerCost =>
                      req[p].pc = "track" /\ req'[p].pc = "metrics"
                /\ delivered' # delivered =>
                      /\ req[p].pc = "alertfetch" /\ req'[p].pc = "alertset"
                      /\ delivered'[<<req[p].alertKey[1], now>>]
                            = delivered[<<req[p].alertKey[1], now>>] + 1]_vars

\* The first request was answered 200 and is over, and its usage of one
\* ledger unit was not recorded: the ledger write failed.
Wit_C15_TrackingFailedAfter200 ==
    \E p \in Slots :
        /\ started = 1
        /\ req[p].pc = "done"
        /\ req[p].status = 200
        /\ req[p].trackUnits = 1
        /\ ledgerCost[req[p].trackDay] \in {0, CapUnits - 1}

\* C16: when the upstream result carries a token total, the usage event
\* of the request records that total as its token count.
Cex_C16_ReportedUsagePreferred ==
    \A p \in Slots :
        (req[p].via = "http" /\ req[p].status = 200 /\ req[p].usageTotal > 0) =>
            req[p].trackTokens = req[p].usageTotal

\* C17: of each alert at most one delivery is made within the time an
\* alert marker lasts, whatever the interleaving of the threshold checks
\* of concurrent trackRequest calls.
Cex_C17_OneDeliveryPerHour ==
    \A l \in AlertLevels :
        \A t1 \in 0..MaxNow, t2 \in 0..MaxNow :
            (t1 <= t2 /\ t2 - t1 < AlertTtl) =>
                IF t1 = t2 THEN delivered[<<l, t1>>] <= 1
                ELSE delivered[<<l, t1>>] = 0 \/ delivered[<<l, t2>>] = 0

(***************************************************************************)
(* C18: for a stored OAuth state nonce, whatever the number of             *)
(* validateState calls on it and however they interleave, one call returns *)
(* the stored redirect and every other call returns not-found; here: no    *)
(* two calls on the same nonce have both returned the redirect.            *)
(***************************************************************************)
Cex_C18_StateConsumedOnce ==
    \A p, q \in Slots :
        (/\ p # q
         /\ req[p].nonce = NonceStored
         /\ req[q].nonce = NonceStored
         /\ req[p].result = StoredRedirect) => req[q].result # StoredRedirect

(***************************************************************************)
(* C19: in the callback handler the code-for-token exchange and the        *)
(* creation of a session happen only after validateState returned the      *)
(* redirect stored under the request's state; a callback with a provider   *)
(* error parameter, without code or state, or whose state validateState    *)
(* does not find (never stored, expired, consumed) is answered with the    *)
(* 400 error page, exchanges no code and creates no session.               *)
(***************************************************************************)
CallbackOrder(p) ==
    \* the exchange is entered by the return of validateState only
    /\ req'[p].pc \in {"exchange", "mint", "sadd"} =>
           /\ req'[p].result = StoredRedirect
           /\ req'[p].nonce = NonceStored
    /\ (req'[p].pc = "exchange" /\ req[p].pc # "exchange") =>
           req[p].pc = "statedel"
    \* a state that the store does not hold ends the request
    /\ (/\ req[p].via = "http"
        /\ req[p].pc = "stateget"
        /\ req[p].nonce \notin oauthStates
        /\ req'[p] # req[p]) =>
           /\ req'[p].pc = "done"
           /\ req'[p].status = 400
    \* a callback that ended without a validated state
    /\ (req'[p].via = "http" /\ req'[p].pc = "done" /\ req'[p].result = None) =>
           /\ req'[p].token = <<>>
           /\ \/ req'[p].status = 400
              \/ req'[p].status = 405 /\ req'[p].code = "METHOD_NOT_ALLOWED"

Thm_C19_ExchangeAfterValidState ==
    [][/\ \A p \in Slots : CallbackOrder(p)
       /\ sessions' # sessions =>
             \E p \in Slots :
                /\ req[p].pc = "mint"
                /\ req[p].result = StoredRedirect
                /\ req'[p].token \notin DOMAIN sessions
                /\ DOMAIN sessions' = DOMAIN sessions \cup {req'[p].token}]_vars

\* One callback was answered the success page with a new session, and a
\* second callback with the same, now consumed, state the error page.
Wit_C19_ReplayRejected ==
    \E p, q \in Slots :
        /\ req[p].via = "http" /\ req[p].pc = "done" /\ req[p].status = 200
        /\ req[p].token \in DOMAIN sessions
        /\ req[q].via = "http" /\ req[q].pc = "done"
        /\ req[q].nonce = NonceStored
        /\ req[q].status = 400 /\ req[q].code = "invalid_state"

(***************************************************************************)
(* C20: a session lookup (getSession, validateRequest) on a token whose    *)
(* stored record has expiresAt earlier than now returns unauthenticated    *)
(* while the record is still in the store; here: a lookup that has its     *)
(* read of such a record in flight comes to its return, with a store that  *)
(* answers every call and never evicts.                                    *)
(***************************************************************************)
Cex_C20_ExpiredLookupReturns ==
    \A p \in Slots :
        (/\ req[p].pc = "sessget"
         /\ req[p].op \in {"getSession", "validateRequest"}
         /\ SessionStale(req[p].token, now)) ~> (req[p].pc = "done")

(***************************************************************************)
(* C21: GET auth/me answers a bearer token that has an expired record in   *)
(* the store as it answers a token that has no record: 200 with            *)
(* authenticated false (or, in both cases alike, the failure of the store  *)
(* call); here: a GET auth/me that has its read of an expired record in    *)
(* flight comes to that answer, with a store that answers every call.      *)
(***************************************************************************)
Cex_C21_ExpiredAnsweredAsUnknown ==
    \A p \in Slots :
        (/\ req[p].op = "me"
         /\ req[p].pc = "sessget"
         /\ SessionStale(req[p].token, now))
        ~> (/\ req[p].op = "me"
            /\ req[p].pc = "done"
            /\ \/ req[p].status = 200 /\ req[p].code = "UNAUTHENTICATED"
               \/ req[p].thrown # None)

(***************************************************************************)
(* C22: once a logout (DELETE auth/me) of a valid session token has        *)
(* completed, the store holds no record for the token, the token is not    *)
(* in the reverse lookup of the user under the key createSession added it  *)
(* to, and every lookup of the token that returns from then on returns     *)
(* unauthenticated.                                                        *)
(***************************************************************************)
LoggedOut(p) ==
    /\ req[p].op = "logout"
    /\ req[p].pc = "done"
    /\ req[p].status = 200
    /\ req[p].session

Thm_C22_LogoutRemovesSession ==
    [][\A p \in Slots :
          /\ LoggedOut(p)' =>
                /\ req'[p].token \notin DOMAIN sessions'
                /\ req'[p].token \notin userSessions'[SaddKey(GitHubUserId)]
          /\ LoggedOut(p) =>
                \A q \in Slots :
                    (/\ req'[q] # req[q]
                     /\ req'[q].op = "me"
                     /\ req'[q].pc = "done"
                     /\ req'[q].token = req[p].token) =>
                        req'[q].code # "AUTHENTICATED"]_vars

\* A logout of the stored session has completed before its expiry, and
\* a GET auth/me with the same token was answered unauthenticated.
Wit_C22_LookupAfterLogout ==
    \E p, q \in Slots :
        /\ LoggedOut(p)
        /\ now = 0
        /\ req[p].token = TokenGood
        /\ req[q].op = "me" /\ req[q].pc = "done" /\ req[q].token = TokenGood
        /\ req[q].status = 200 /\ req[q].code = "UNAUTHENTICATED"

(***************************************************************************)
(* C23: DELETE auth/me answers 401 when the request carries no bearer      *)
(* token or a bearer token that does not resolve to a valid session, and   *)
(* answers 200 only when a valid session was logged out.                   *)
(***************************************************************************)
Cex_C23_LogoutNeedsValidSession ==
    \A p \in Slots :
        (req[p].op = "logout" /\ req[p].pc = "done" /\ req[p].status = 200) =>
            req[p].session

(***************************************************************************)
(* C24: a poll of the device flow answers status pending when the provider *)
(* reports authorization pending, expired when it reports the code         *)
(* expired, and success when it hands out the access token; on success a   *)
(* session has been created and the token in the answer is valid for a     *)
(* session lookup at once; a poll that answers pending, expired or error   *)
(* creates no session.                                                     *)
(***************************************************************************)
PollAnswered(p) ==
    /\ req'[p].op = "poll"
    /\ req[p].pc # "done"
    /\ req'[p].pc = "done"
    /\ req'[p].status = 200

Thm_C24_PollStatusAndSession ==
    [][/\ \A p \in Slots : PollAnswered(p) =>
             LET data == req'[p].answer
                 st   == req'[p].code
             IN  /\ data.error = "authorization_pending" => st = "pending"
                 /\ data.error = "expired_token" => st = "expired"
                 /\ data.error = None /\ data.access_token # None => st = "success"
                 /\ st = "success" =>
                       /\ data.access_token # None
                       /\ req'[p].token \in DOMAIN sessions'
                       /\ ~(sessions'[req'[p].token] < now')
                       /\ req'[p].token \in userSessions'[SaddKey(GitHubUserId)]
                 /\ st \in {"pending", "expired", "error"} =>
                       req'[p].token = <<>>
       /\ \A p, q \in Slots :
             (/\ req[q].op = "poll" /\ req[q].pc = "done" /\ req[q].code = "success"
              /\ req[p].op = "getSession" /\ req[p].token = req[q].token
              /\ req[p].pc = "sessget" /\ req'[p].pc = "done"
              /\ req'[p].thrown = None) => req'[p].result = "session"
       /\ sessions' # sessions =>
             \E p \in Slots :
                /\ req[p].op = "poll"
                /\ req[p].pc = "mint"
                /\ req[p].result = "success"]_vars

\* A poll was answered success with a token, and a session lookup with
\* that token returned the session.
Wit_C24_TokenValidAfterSuccess ==
    \E p, q \in Slots :
        /\ req[q].op = "poll" /\ req[q].pc = "done" /\ req[q].code = "success"
        /\ req[p].op = "getSession" /\ req[p].pc = "done"
        /\ req[p].token = req[q].token
        /\ req[p].result = "session"

(***************************************************************************)
(* C25: a status query (GET limits, getRateLimitStatus) changes no quota   *)
(* counter, so the next admission is decided on the counters as they were  *)
(* before it; status queries of one identity that find the same counters   *)
(* in the same window report the same remaining value.                     *)
(***************************************************************************)
StatusStep(p) ==
    /\ req[p].pc \in {"getremaining", "getRateLimitStatus"}
    /\ req'[p] # req[p]

StatusAnswer(r) ==
    /\ r.op \in {"limits", "getRateLimitStatus"}
    /\ r.pc = "done"
    /\ r.limit > 0
    /\ ~r.storeFailed

Thm_C25_StatusQueryReadsOnly ==
    [][\A p \in Slots : StatusStep(p) =>
          /\ quota' = quota
          /\ admitted' = admitted
          /\ \A q \in Slots :
                (/\ q # p
                 /\ StatusAnswer(req'[p])
                 /\ StatusAnswer(req[q])
                 /\ req[q].op = req'[p].op
                 /\ req[q].tier = req'[p].tier
                 /\ req[q].userId = req'[p].userId
                 /\ req[q].seen = req'[p].seen
                 /\ Day(req[q].at) = Day(now)) =>
                    req'[p].remaining = req[q].remaining]_vars

\* Two GET limits of one identity were answered with the same remaining
\* value, which is not the full limit.
Wit_C25_TwoQueriesSameRemaining ==
    \E p, q \in Slots :
        /\ p # q
        /\ StatusAnswer(req[p]) /\ StatusAnswer(req[q])
        /\ req[p].op = "limits" /\ req[q].op = "limits"
        /\ req[p].userId = req[q].userId
        /\ req[p].remaining = req[q].remaining
        /\ req[p].remaining < req[p].limit

(***************************************************************************)
(* C26: with the store unreachable a status query (getRateLimitStatus,     *)
(* GET limits) does not fail: it reports the full limit of the tier as     *)
(* limit and as remaining.                                                 *)
(***************************************************************************)
Cex_C26_StatusFailsOpen ==
    \A p \in Slots :
        (/\ req[p].op \in {"limits", "getRateLimitStatus"}
         /\ req[p].pc = "done"
         /\ req[p].storeFailed) =>
            /\ req[p].thrown = None
            /\ req[p].via = "http" => req[p].status = 200
            /\ req[p].limit = TierLimit(req[p].tier)
            /\ req[p].remaining = TierLimit(req[p].tier)

(***************************************************************************)
(* C27: quota windows are fixed UTC days: an admission counts against the  *)
(* window it was made in only, so the first request of an identity in a    *)
(* new window (at or after the reported reset instant) is admitted, also   *)
(* when the identity had used up the previous window.                      *)
(***************************************************************************)
Cex_C27_FirstRequestOfWindowAdmitted ==
    \A p \in Slots :
        (/\ req[p].op = "checkRateLimit"
         /\ req[p].pc = "done"
         /\ req[p].thrown = None
         /\ req[p].used = 0) => req[p].result = "success"

(***************************************************************************)
(* C28: a POST generate whose body does not parse, whose prompt is         *)
(* missing, empty or no string, or whose prompt is longer than 32,000      *)
(* characters is answered 400 with INVALID_JSON, INVALID_PROMPT and        *)
(* PROMPT_TOO_LONG respectively, before any admission step.                *)
(***************************************************************************)
ExpectedRejection(r) ==
    IF r.body = "badjson" THEN "INVALID_JSON"
    ELSE IF r.body \in {"noprompt", "null"} \/ r.promptLen = 0
    THEN "INVALID_PROMPT"
    ELSE IF r.promptLen > MaxPromptLength THEN "PROMPT_TOO_LONG"
    ELSE None

Cex_C28_InvalidRequestIs400 ==
    \A p \in Slots :
        (/\ req[p].op = "generate"
         /\ req[p].method = "POST"
         /\ req[p].pc = "done"
         /\ ExpectedRejection(req[p]) # None) =>
            /\ req[p].status = 400
            /\ req[p].code = ExpectedRejection(req[p])

(***************************************************************************)
(* C29: getTodayMetrics and getMetricsForDate return a fully populated     *)
(* metrics object whatever the store holds for the day: every counter      *)
(* whose key is missing is reported as 0, and for a day without any key    *)
(* the result is 0 requests, 0 tokens, cost 0, both tier counts 0 and an   *)
(* empty topUsers list.                                                    *)
(***************************************************************************)
MetricsReturned(p) ==
    /\ req[p].op \in {"getTodayMetrics", "getMetricsForDate"}
    /\ req[p].pc = "done"

Thm_C29_MetricsFullyPopulated ==
    \A p \in Slots : MetricsReturned(p) =>
        LET m    == req[p].metrics
            keys == KeysOf(req[p].trackDay)
        IN  /\ m.totalRequests \in Nat /\ m.totalTokens \in Nat
            /\ m.estimatedCost \in Nat
            /\ m.anonymous \in Nat /\ m.authenticated \in Nat
            /\ \A i \in 1..Len(m.topUsers) :
                   /\ m.topUsers[i].id \in DOMAIN keys.users
                   /\ m.topUsers[i].requests \in Nat
            /\ keys.counters["requests"] = Null => m.totalRequests = 0
            /\ keys.counters["tokens"] = Null => m.totalTokens = 0
            /\ keys.counters["tier:anonymous"] = Null => m.anonymous = 0
            /\ keys.counters["tier:authenticated"] = Null => m.authenticated = 0
            /\ (keys = NoKeys /\ CostOf(req[p].trackDay) = 0) =>
                   m = ZeroMetrics

\* A reader returned for a day of which some keys are missing and some
\* are set, the store having answered.
Wit_C29_PartlyMissingDay ==
    \E p \in Slots :
        /\ MetricsReturned(p)
        /\ ~req[p].storeFailed
        /\ req[p].op = "getTodayMetrics"
        /\ KeysOf(req[p].trackDay).counters["requests"] = Null
        /\ KeysOf(req[p].trackDay).counters["tokens"] # Null
        /\ req[p].metrics.totalTokens > 0
        /\ Len(req[p].metrics.topUsers) = 2

(***************************************************************************)
(* C30: POST generate and GET limits resolve the identity of a request     *)
(* with the same precedence: a bearer Authorization header wins over an    *)
(* X-GitHub-User header, which wins over the forwarded-for / real-IP       *)
(* header; only the last gives tier anonymous and an identity ip:<hash>;   *)
(* for identical headers the two endpoints resolve the same identity and   *)
(* tier.                                                                   *)
(***************************************************************************)
\* The invocation of a tiered endpoint in slot p has resolved its caller.
Resolved(p) ==
    /\ req[p].op \in {"generate", "limits"}
    /\ req[p].hdr \in 1..Len(Inputs)
    /\ req[p].userId # IdleReq.userId

HasBearer(h) == h.auth # <<>> /\ h.auth[1] = "Bearer"

Thm_C30_SamePrecedenceOnBothEndpoints ==
    /\ \A p \in Slots : Resolved(p) =>
          LET h == Inputs[req[p].hdr]
              r == req[p]
          IN  /\ HasBearer(h) =>
                    /\ r.tier = "authenticated"
                    /\ r.userId = <<"github", hashString(h.auth[2])>>
              /\ (~HasBearer(h) /\ h.ghUser # <<>>) =>
                    /\ r.tier = "authenticated"
                    /\ r.userId = <<"github", h.ghUser>>
              /\ (~HasBearer(h) /\ h.ghUser = <<>>) =>
                    /\ r.tier = "anonymous"
                    /\ r.userId[1] = "ip"
                    /\ r.userId[2] = hashString(
                          IF h.fwd # <<>> THEN h.fwd[1]
                          ELSE IF h.realIp # <<>> THEN h.realIp
                          ELSE S_unknown)
              /\ r.tier = "anonymous" <=> r.userId[1] = "ip"
    /\ \A p, q \in Slots :
          (Resolved(p) /\ Resolved(q) /\ req[p].hdr = req[q].hdr) =>
              /\ req[p].userId = req[q].userId
              /\ req[p].tier = req[q].tier

\* The two endpoints have resolved a request whose headers carry a bearer
\* token, an X-GitHub-User and a forwarded-for address.
Wit_C30_BothEndpointsAllHeaders ==
    \E p, q \in Slots :
        /\ Resolved(p) /\ req[p].op = "generate"
        /\ Resolved(q) /\ req[q].op = "limits"
        /\ req[p].hdr = req[q].hdr
        /\ HasBearer(Inputs[req[p].hdr])
        /\ Inputs[req[p].hdr].ghUser # <<>>
        /\ Inputs[req[p].hdr].fwd # <<>>
        /\ req[p].userId = req[q].userId

(***************************************************************************)
(* C31: with no key configured, generateWithRotation throws "No Gemini API *)
(* keys configured" at its first selectKey(), having selected no key and   *)
(* made no upstream call or further attempt, and POST generate answers     *)
(* 503 CONFIG_ERROR; nothing more happens in the invocation.               *)
(***************************************************************************)
Thm_C31_NoKeysFailsFast ==
    [][\A p \in Slots :
          /\ (/\ env = {}
              /\ BudgetAnswered(p)
              /\ req'[p].code # "BUDGET_EXCEEDED")
             => /\ req'[p].pc = "done"
                /\ req'[p].thrown = "eNoKeys"
                /\ req'[p].attempt = 0
                /\ ~Dispatched(req'[p])
                /\ req'[p].status = 503
                /\ req'[p].code = "CONFIG_ERROR"
                /\ keyStates' = keyStates
          /\ (env = {} /\ req[p].thrown = "eNoKeys")
             => req'[p] \in {req[p], IdleReq}]_vars

\* A valid request passed both admission checks with no key configured
\* and was answered.
Wit_C31_AnsweredWithoutKeys ==
    \E p \in Slots :
        /\ env = {}
        /\ req[p].via = "http"
        /\ req[p].pc = "done"
        /\ req[p].thrown = "eNoKeys"
        /\ req[p].status = 503

(***************************************************************************)
(* C32: when an upstream call fails inside generateWithRotation: if the    *)
(* error is classified rate-limited / quota or invalid / unauthorized, the *)
(* key used is marked unhealthy and, while attempts remain, the loop goes  *)
(* on to another attempt; if it is classified other, the key used is not   *)
(* marked, the call makes no further selection or upstream call, and that  *)
(* same error is thrown to the caller.                                     *)
(***************************************************************************)
\* Slot p's upstream call failed in this step.
Fails(p) ==
    /\ req[p].pc = "upstream"
    /\ req'[p].keyUsed = None
    /\ req'[p].pc = "done" \/ req'[p].attempt # req[p].attempt

Thm_C32_FailureClassification ==
    [][\A p \in Slots :
          /\ Fails(p) =>
                LET e == req'[p].lastError
                    k == req[p].keyInfo
                IN  IF IsRateLimitError(e) \/ IsInvalidKeyError(e)
                    THEN /\ keyStates'[k].lastError =
                               (IF IsRateLimitError(e) THEN "Rate limited"
                                ELSE "Invalid API key")
                         \* unhealthy, unless this call's next selectKey()
                         \* found no healthy key and reset this one
                         /\ \/ ~keyStates'[k].isHealthy
                            \/ /\ req'[p].pc = "upstream" /\ req'[p].keyInfo = k
                               /\ \A n \in env \ {k} : ~keyStates[n].isHealthy
                         /\ req'[p].attempt = req[p].attempt + 1
                         /\ IF AttemptsLeft(req'[p].attempt)
                            THEN req'[p].pc = "upstream"
                            ELSE req'[p].pc = "done" /\ req'[p].thrown = e
                    ELSE /\ keyStates' = keyStates
                         /\ req'[p].pc = "done"
                         /\ req'[p].thrown = e
                         /\ req'[p].attempt = req[p].attempt
                         /\ req'[p].keyInfo = k
          /\ (req[p].pc = "done" /\ req[p].via = "direct")
                => req'[p] \in {req[p], IdleReq}]_vars

\* Of two calls on a pool of three keys, one ended at its second attempt
\* with an error classified other, its first attempt having been rate
\* limited: the first key is marked, the second is not.
Wit_C32_OtherErrorAfterRetry ==
    \E p \in Slots :
        /\ Cardinality(env) = 3
        /\ req[p].pc = "done"
        /\ req[p].attempt = 1
        /\ req[p].thrown = "eOther"
        /\ keyStates[req[p].keyInfo].isHealthy
        /\ \E n \in env : keyStates[n].lastError = "Rate limited"

(***************************************************************************)
(* C33: within one generateWithRotation call on a pool of at least two     *)
(* keys, whatever the state of the pool, the attempt that follows an       *)
(* attempt failed with a retryable error selects a key other than the one  *)
(* that just failed.  Stated where the order selectKey() sorts by is       *)
(* total (at most one key was never used).                                 *)
(***************************************************************************)
Cex_C33_RetrySelectsDifferentKey ==
    [][\A p \in Slots :
          (/\ Fails(p)
           /\ req'[p].pc = "upstream"
           /\ Cardinality(env) >= 2
           /\ Cardinality({n \in env : LastUsedAtSelect(n) = Null}) <= 1)
          => req'[p].keyInfo # req[p].keyInfo]_vars

(***************************************************************************)
(* C34: whenever at least one key is healthy, selectKey() returns a        *)
(* healthy key whose lastUsed is minimal among the healthy keys, a         *)
(* never-used key (lastUsed null) counting as older than any used one,     *)
(* and selectKey() itself changes no field of any key in this case.        *)
(***************************************************************************)
\* The key state selectKey() of slot p found for n in this step (see
\* HealthAtSelect).
StateAtSelect(p, n) ==
    IF n \notin DOMAIN keyStates THEN NewKeyState
    ELSE IF req[p].pc = "upstream" /\ req[p].keyInfo = n
    THEN [keyStates'[n] EXCEPT !.isHealthy = FALSE]
    ELSE keyStates[n]

Thm_C34_HealthyLeastRecentlyUsed ==
    [][\A p \in Slots :
          (Selects(p) /\ \E n \in env : HealthAtSelect(p, n)) =>
             LET k == req'[p].keyInfo
             IN  /\ k \in env
                 /\ HealthAtSelect(p, k)
                 /\ \A n \in env :
                       HealthAtSelect(p, n) =>
                          NotLater(LastUsedAtSelect(k), LastUsedAtSelect(n))
                 /\ \A n \in env : keyStates'[n] = StateAtSelect(p, n)]_vars

\* A retry selected a never-used key while a key that had been used was
\* healthy as well.
Wit_C34_NeverUsedBeforeUsed ==
    \E p \in Slots :
        /\ req[p].pc = "upstream"
        /\ req[p].attempt = 1
        /\ keyStates[req[p].keyInfo].lastUsed = Null
        /\ keyStates[req[p].keyInfo].isHealthy
        /\ \E n \in env : /\ keyStates[n].isHealthy
                          /\ keyStates[n].lastUsed # Null

(***************************************************************************)
(* C35: trackRequest applies the increments of one usage event as one      *)
(* atomic step with respect to the readers: no getTodayMetrics or          *)
(* getMetricsForDate running alongside trackRequest calls returns metrics  *)
(* that reflect only part of an event, so that every metrics object        *)
(* returned from the store's answers has                                   *)
(* totalRequests = requestsByTier.anonymous + requestsByTier.authenticated.*)
(***************************************************************************)
Cex_C35_ReaderSeesWholeEvents ==
    \A p \in Slots :
        (MetricsReturned(p) /\ ~req[p].storeFailed) =>
            req[p].metrics.totalRequests
                = req[p].metrics.anonymous + req[p].metrics.authenticated

(***************************************************************************)
(* C36: after each ledger increment the threshold check selects the alert  *)
(* by today's recorded cost: the critical alert when the cost is at least  *)
(* 100% of the daily cap, the warning alert when it is at least 80% and    *)
(* below 100% of the cap, and no alert below 80%.                          *)
(***************************************************************************)
Cex_C36_AlertByShareOfCap ==
    [][\A p \in Slots :
          CheckBudget(p) =>
              LET cost   == ledgerCost[Day(now)]
                  cap    == req[p].cap
                  chosen == IF req'[p].pc = "alertget"
                            THEN req'[p].alertKey[1] ELSE None
              IN  /\ chosen = "critical" <=> cost >= cap
                  /\ chosen = "warning" <=> (5 * cost >= 4 * cap /\ cost < cap)
                  /\ chosen = None <=> 5 * cost < 4 * cap]_vars

(***************************************************************************)
(* C37: every getSession, validateRequest and deleteSession call completes *)
(* after a bounded number of store operations for every store content,     *)
(* including a session record that is expired and still present; here: a   *)
(* call that has a store operation in flight comes to its return, with a   *)
(* store that answers every call and need not evict.                       *)
(***************************************************************************)
Cex_C37_SessionCallsComplete ==
    \A p \in Slots :
        (/\ req[p].pc \in {"sessget", "sessdel", "sessrem"}
         /\ req[p].op \in {"getSession", "validateRequest", "deleteSession"})
        ~> (req[p].pc = "done")

(***************************************************************************)
(* C38: the remaining quota reported by a 200 POST generate response       *)
(* equals the remaining quota that a GET limits request with the same      *)
(* headers reports immediately afterwards, and both lie in 0..limit; here: *)
(* a GET limits whose read finds the counter of the current window as the  *)
(* admission of that POST generate left it answers with the remaining      *)
(* that the POST generate reported.                                        *)
(***************************************************************************)
Cex_C38_GenerateAndLimitsAgree ==
    [][\A p, q \in Slots :
          (/\ LimitsRead(q)
           /\ req[p].op = "generate"
           /\ req[p].status = 200
           /\ req[p].hdr = req[q].hdr
           /\ quota[<<req[p].tier, req[p].userId, Day(now)>>] = req[p].used)
          => /\ req'[q].remaining = req[p].repRemaining
             /\ req'[q].remaining \in 0..req'[q].limit
             /\ req[p].repRemaining \in 0..req[p].limit]_vars

(***************************************************************************)
(* C39: every POST generate request that passes validation consumes        *)
(* exactly one unit of the caller's quota before the budget check and the  *)
(* upstream call, and no later outcome refunds it: the budget check is     *)
(* entered only from the limit call, which adds one to the counter of the  *)
(* caller's window and changes no other; the upstream call is entered only *)
(* from the budget check; and from the budget check on no step of the      *)
(* request (BUDGET_EXCEEDED, the 503 and 500 answers included) changes a   *)
(* counter, nor does any step ever lower one.                              *)
(***************************************************************************)
Thm_C39_OneUnitNoRefund ==
    [][/\ \A p \in Slots :
            (req[p].op = "generate" /\ req'[p].pc = "budget"
                                    /\ req[p].pc # "budget") =>
                /\ req[p].pc = "ratelimit"
                /\ quota' = [quota EXCEPT
                               ![<<req[p].tier, req[p].userId, Day(now)>>] = @ + 1]
       /\ \A p \in Slots :
            (req[p].op = "generate" /\ req'[p].pc = "upstream"
                                    /\ req[p].pc # "upstream") =>
                req[p].pc = "budget"
       /\ \A p \in Slots :
            (/\ req[p].op = "generate"
             /\ req[p].pc \in {"budget", "upstream"}
             /\ req'[p] # req[p]) => quota' = quota
       /\ \A k \in DOMAIN quota : quota'[k] >= quota[k]]_vars

\* A request was admitted, found the budget used up or failed upstream,
\* and the counter of its window still holds what its limit call left.
Wit_C39_RejectedStillCounted ==
    \E p \in Slots :
        /\ req[p].op = "generate"
        /\ req[p].pc = "done"
        /\ req[p].code \in {"BUDGET_EXCEEDED", "UPSTREAM_RATE_LIMIT",
                            "GENERATION_FAILED"}
        /\ req[p].used > 0
        /\ quota[<<req[p].tier, req[p].userId, Day(now)>>] = req[p].used

(***************************************************************************)
(* C40: GET health answers 503 exactly when the reported status is         *)
(* unhealthy; the status is unhealthy whenever the store ping failed, no   *)
(* credential is configured or no credential is healthy, with or without   *)
(* metrics=true; degraded is reported only when the store is reachable and *)
(* some but not all credentials are healthy; and the health check changes  *)
(* no credential state (a configured credential met for the first time is  *)
(* entered as it would be by any other call: healthy and unused).          *)
(***************************************************************************)
Cex_C40_HealthStatus ==
    [][\A p \in Slots :
          (req[p].pc \in {"ping", "healthmetrics"} /\ req'[p] # req[p]) =>
              /\ keyStates' = WithKeyStates(keyStates, env)
              /\ (req'[p].pc = "done" /\ req'[p].status # 405) =>
                    LET r == req'[p]
                    IN  /\ r.status = 503 <=> r.health = "unhealthy"
                        /\ (r.storeFailed \/ r.totalKeys = 0
                                          \/ r.healthyKeys = 0)
                              => r.health = "unhealthy"
                        /\ r.health = "degraded" =>
                              /\ ~r.storeFailed
                              /\ 0 < r.healthyKeys
                              /\ r.healthyKeys < r.totalKeys]_vars

====
